---- MODULE Spec2Model ----
(***************************************************************************)
(* Model of the picture-diff service (app/services/image_diff.py and the   *)
(* routers that call it).  Rectangles are tuples <<x, y, w, h>> as in the  *)
(* Python code; lists are sequences.                                       *)
(***************************************************************************)
EXTENDS Integers, Sequences, FiniteSets, TLC

VARIABLES
    comp,       \* which component this behaviour exercises
    regions,    \* merge_overlapping_regions: the argument `regions`
    padding,    \* merge_overlapping_regions: the argument `padding`
    merged,     \* merge_overlapping_regions: the local list `merged`
    changed,    \* merge_overlapping_regions: the local flag `changed`
    passes,     \* number of passes of the while loop run so far
    mpc,        \* merge_overlapping_regions: "input" | "loop" | "done"
    mresult,    \* merge_overlapping_regions: the returned list
    img1,       \* align_images / find_differences: the argument `img1`
    img2,       \* align_images / find_differences: the argument `img2`
    aligned,    \* align_images: the returned pair
    apc,        \* align_images: "input" | "done"
    min_area,       \* find_differences: the argument `min_area`
    diff_threshold, \* find_differences: the argument `diff_threshold`
    cvContours,     \* what cv2.findContours (line 572) yields for this input
    contours,       \* find_differences: the local `contours`
    differences,    \* find_differences: the local list `differences` (lines 574-581)
    dresult,        \* find_differences: the returned list
    dpc,            \* find_differences: "input" | "contours" | "filtered" | "done"
    drawShape,      \* draw_differences: img.shape[:2] of the argument `img`, <<height, width>>
    drawRegions,    \* draw_differences: the argument `differences`
    cvTextWidth,    \* what cv2.getTextSize (line 694) reports as the label's width
    drawCalls,      \* draw_differences: the cv2 drawing calls made on `result` so far
    drawpc,         \* draw_differences: "input" | "loop" | "done"
    drawResultIs,   \* draw_differences: the buffer the local `result` names:
                    \* "none" | "img" (the caller's buffer) | "copy" (a new one)
    drawImgMarks,   \* the cv2 drawing calls that have landed on the caller's buffer
    cvFound,        \* what cv2.findContours yields in process_screenshot and
                    \* save_result_images, per image bytes and diff_threshold
    inv,            \* the invocation each caller has in progress: operation,
                    \* arguments, control position, locals and return value
    dirs,           \* file system: the directories that exist
    files,          \* file system: the content of each output file
    log,            \* the finished process_screenshot calls: <<arguments, result>>
    calls,          \* number of invocations started
    interval_ms,    \* screen_stream: the local `interval_ms`
    is_paused,      \* screen_stream: the local `is_paused`
    is_streaming,   \* screen_stream: the local `is_streaming`
    connected,      \* screen_stream: whether the client's WebSocket is still open
    recv_alive,     \* screen_stream: whether the task receive_messages is running
    spc,            \* screen_stream main loop: "idle" | "frame" | "sleep" | "closed"
    slept_ms,       \* screen_stream: the interval of the last asyncio.sleep, 0 if none
    received,       \* screen_stream: number of client messages received
    scanRows,       \* extract_game_images: row_variance_smooth[y] > var_threshold, per row
    scan_y,         \* extract_game_images: the loop variable `y` of line 81
    in_content,     \* extract_game_images: the local `in_content`
    content_start,  \* extract_game_images: the local `content_start`
    content_regions,\* extract_game_images: the local list `content_regions`
    scanpc          \* extract_game_images row scan: "idle" | "loop" | "tail" | "done"

mergeVars == <<regions, padding, merged, changed, passes, mpc, mresult>>
imageVars == <<img1, img2>>
alignVars == <<aligned, apc>>
detectVars == <<min_area, diff_threshold, cvContours, contours, differences, dresult, dpc>>
drawVars == <<drawShape, drawRegions, cvTextWidth, drawCalls, drawpc, drawResultIs,
              drawImgMarks>>
pipeVars == <<cvFound, inv, dirs, files, log, calls>>
streamVars == <<interval_ms, is_paused, is_streaming, connected, recv_alive, spc, slept_ms,
                received>>
scanVars == <<scanRows, scan_y, in_content, content_start, content_regions, scanpc>>
\* ------------------------------------- variables of the further components
VARIABLES
    splitHeight,    \* extract_game_images: `height` of the screenshot
    splitRegions,   \* extract_game_images: `content_regions` when step 5 begins
    splitProfile,   \* the rows of row_edge_smooth and row_variance_smooth, see RowEdge
    sorted_regions, \* extract_game_images: the local `sorted_regions`
    sel_i,          \* extract_game_images: the loop variable `i` of line 120
    best_pair,      \* extract_game_images: the local `best_pair`, <<>> for None
    best_height_diff,\* extract_game_images: the local `best_height_diff`, <<"inf", 0>> for infinity
    split_band,     \* extract_game_images: <<split_row, split_start, split_end, min_split_gap>>
    region1,        \* extract_game_images: the local `region1`
    region2,        \* extract_game_images: the local `region2`
    splitpc         \* step 5 and 6: "idle" | "choose" | "pairs" | "chosen" | "done" | "error"

VARIABLES
    cropShapes,     \* crop_image_borders_unified: <<<<h1, w1>>, <<h2, w2>>>> of img1 and img2
    cropDetected,   \* the widths detected: [left1, right1, top1, bottom1, left2, ...]
    cropUnified,    \* the locals left, right, top, bottom; <<>> before line 277
    cropSlices,     \* the slices apply_crop took of img1 and img2, each <<t, b, l, r>>
    croppc          \* "idle" | "detected" | "unified" | "first" | "done"

VARIABLES
    borderShape,    \* detect_uniform_border_width: <<h, w>> of `img`
    borderSide,     \* the argument `side`
    max_search,     \* the argument `max_search`
    borderTest,     \* borderTest[offset]: whether the test of line 358 or 391 passes at the offset
    border_offset,  \* the loop variable `offset`
    border_width,   \* the local `border_width` or `border_height`
    borderpc        \* "idle" | "loop" | "returned"

VARIABLES
    exe_exists,     \* ScrcpyService: whether SCRCPY_EXE_PATH.exists()
    is_recording,   \* ScrcpyService._is_recording
    recording_process,\* ScrcpyService._recording_process: a process id, 0 for None
    recording_file, \* ScrcpyService._recording_file: "none" for None
    recRunning,     \* the recording subprocesses spawned by the service that are running
    recSpawned,     \* how many subprocesses the service has spawned
    recCalls,       \* how many start_recording and stop_recording calls were made
    recTask,        \* per request: where its coroutine stands, and the process it waits for
    recResult       \* per request: what its last call returned

VARIABLES
    adb_found,      \* AdbService: whether _find_adb finds the adb tool
    connected_address,\* AdbService._connected_address, "none" for None
    adbLog,         \* per address: the last of `adb connect` succeeded / `adb disconnect` issued
    adbCalls,       \* how many calls of the service were made
    adbResult       \* what the last call returned

splitVars ==
    <<splitHeight, splitRegions, splitProfile, sorted_regions, sel_i, best_pair,
      best_height_diff, split_band, region1, region2, splitpc>>
cropVars == <<cropShapes, cropDetected, cropUnified, cropSlices, croppc>>
borderVars ==
    <<borderShape, borderSide, max_search, borderTest, border_offset, border_width,
      borderpc>>
recVars ==
    <<exe_exists, is_recording, recording_process, recording_file, recRunning,
      recSpawned, recCalls, recTask, recResult>>
adbVars == <<adb_found, connected_address, adbLog, adbCalls, adbResult>>
laterVars == <<splitVars, cropVars, borderVars, recVars, adbVars>>
earlierVars ==
    <<mergeVars, imageVars, alignVars, detectVars, drawVars, pipeVars, streamVars, scanVars>>
splitFrame == <<comp, earlierVars, cropVars, borderVars, recVars, adbVars>>
cropFrame == <<comp, earlierVars, splitVars, borderVars, recVars, adbVars>>
borderFrame == <<comp, earlierVars, splitVars, cropVars, recVars, adbVars>>
recFrame == <<comp, earlierVars, splitVars, cropVars, borderVars, adbVars>>
adbFrame == <<comp, earlierVars, splitVars, cropVars, borderVars, recVars>>
\* ------------------------------ end of the variables of the further components
vars == <<comp, mergeVars, imageVars, alignVars, detectVars, drawVars, pipeVars, streamVars,
          scanVars, laterVars>>

\* ------------------------------------------------------------------ bounds
MaxCoord == 4       \* rectangle corners of the two-rectangle inputs: 0..MaxCoord
MaxSide == 2        \* rectangle sides of the two-rectangle inputs: 1..MaxSide
MaxPad == 1         \* padding: 0..MaxPad
MaxRegions == 3     \* longest input list of unit rectangles
MaxListY == 0       \* rows of the unit rectangles of the longer lists
MaxDim == 3         \* heights and widths of the images given to align_images: 1..MaxDim
MaxInner == 1       \* find_differences: rows and columns inside the 20 px edge margin
MaxContours == 2    \* find_differences: longest list of contours
MaxDrawSide == 5    \* draw_differences: region widths and heights 1..MaxDrawSide
MaxDrawPos == 1     \* draw_differences: region corners at 0..MaxDrawPos steps of DrawStep
MaxTextWidth == 1   \* draw_differences: label widths 0..MaxTextWidth
MaxCalls == 2       \* invocations of the public operations in one behaviour
MaxMessages == 3     \* screen_stream: client messages received on one connection
MaxRuns == 2         \* row scan: runs of content rows laid into one test screenshot
MaxPairRegions == 4   \* step 5: at most MaxPairRegions content regions
MaxBorderDim == 20   \* detect_uniform_border_width: images of up to MaxBorderDim rows and columns
MaxRecCalls == 3     \* recording: calls of start_recording and stop_recording in one behaviour
MaxRecTasks == 2     \* recording: requests served concurrently by the event loop
MaxAdbCalls == 4     \* adb: calls of connect, disconnect and capture_screen in one behaviour
MaxSpread == 2       \* step 5: content regions are up to MaxSpread rows longer than the shortest

\* ------------------------------------------------ components not exercised
\* Each behaviour exercises one component (comp); the variables of the others
\* keep these values.
ImagesIdle == img1 = <<>> /\ img2 = <<>>
AlignIdle == aligned = <<>> /\ apc = "idle"
MergeIdle ==
    /\ regions = <<>>
    /\ padding = 0
    /\ merged = <<>>
    /\ changed = FALSE
    /\ passes = 0
    /\ mpc = "idle"
    /\ mresult = <<>>
DetectIdle ==
    /\ min_area = 0
    /\ diff_threshold = 0
    /\ cvContours = <<>>
    /\ contours = <<>>
    /\ differences = <<>>
    /\ dresult = <<>>
    /\ dpc = "idle"
DrawIdle ==
    /\ drawShape = <<0, 0>>
    /\ drawRegions = <<>>
    /\ cvTextWidth = 0
    /\ drawCalls = <<>>
    /\ drawpc = "idle"
    /\ drawResultIs = "none"
    /\ drawImgMarks = <<>>
PipeIdle ==
    /\ cvFound = <<>>
    /\ inv = <<>>
    /\ dirs = {}
    /\ files = <<>>
    /\ log = {}
    /\ calls = 0
StreamIdle ==
    /\ interval_ms = 0
    /\ is_paused = FALSE
    /\ is_streaming = FALSE
    /\ connected = FALSE
    /\ recv_alive = FALSE
    /\ spc = "idle"
    /\ slept_ms = 0
    /\ received = 0
ScanIdle ==
    /\ scanRows = <<>>
    /\ scan_y = 0
    /\ in_content = FALSE
    /\ content_start = 0
    /\ content_regions = <<>>
    /\ scanpc = "idle"
\* ---------------------------------- the further components, not exercised
SplitIdle ==
    /\ splitHeight = 0
    /\ splitRegions = <<>>
    /\ splitProfile = <<>>
    /\ sorted_regions = <<>>
    /\ sel_i = 0
    /\ best_pair = <<>>
    /\ best_height_diff = <<"inf", 0>>
    /\ split_band = <<>>
    /\ region1 = <<>>
    /\ region2 = <<>>
    /\ splitpc = "idle"
CropIdle ==
    /\ cropShapes = <<>>
    /\ cropDetected = <<>>
    /\ cropUnified = <<>>
    /\ cropSlices = <<>>
    /\ croppc = "idle"
BorderIdle ==
    /\ borderShape = <<>>
    /\ borderSide = ""
    /\ max_search = 0
    /\ borderTest = <<>>
    /\ border_offset = 0
    /\ border_width = 0
    /\ borderpc = "idle"
RecIdle ==
    /\ exe_exists = FALSE
    /\ is_recording = FALSE
    /\ recording_process = 0
    /\ recording_file = "none"
    /\ recRunning = {}
    /\ recSpawned = 0
    /\ recCalls = 0
    /\ recTask = <<>>
    /\ recResult = <<>>
AdbIdle ==
    /\ adb_found = FALSE
    /\ connected_address = "none"
    /\ adbLog = <<>>
    /\ adbCalls = 0
    /\ adbResult = "none"
LaterIdle == SplitIdle /\ CropIdle /\ BorderIdle /\ RecIdle /\ AdbIdle
SplitOthersIdle ==
    /\ MergeIdle /\ ImagesIdle /\ AlignIdle /\ DetectIdle /\ DrawIdle /\ PipeIdle
    /\ StreamIdle /\ ScanIdle /\ CropIdle /\ BorderIdle /\ RecIdle /\ AdbIdle
CropOthersIdle ==
    /\ MergeIdle /\ ImagesIdle /\ AlignIdle /\ DetectIdle /\ DrawIdle /\ PipeIdle
    /\ StreamIdle /\ ScanIdle /\ SplitIdle /\ BorderIdle /\ RecIdle /\ AdbIdle
BorderOthersIdle ==
    /\ MergeIdle /\ ImagesIdle /\ AlignIdle /\ DetectIdle /\ DrawIdle /\ PipeIdle
    /\ StreamIdle /\ ScanIdle /\ SplitIdle /\ CropIdle /\ RecIdle /\ AdbIdle
RecOthersIdle ==
    /\ MergeIdle /\ ImagesIdle /\ AlignIdle /\ DetectIdle /\ DrawIdle /\ PipeIdle
    /\ StreamIdle /\ ScanIdle /\ SplitIdle /\ CropIdle /\ BorderIdle /\ AdbIdle
AdbOthersIdle ==
    /\ MergeIdle /\ ImagesIdle /\ AlignIdle /\ DetectIdle /\ DrawIdle /\ PipeIdle
    /\ StreamIdle /\ ScanIdle /\ SplitIdle /\ CropIdle /\ BorderIdle /\ RecIdle
\* --------------------------- end of the further components, not exercised
notMerge ==
    <<comp, imageVars, alignVars, detectVars, drawVars, pipeVars, streamVars, scanVars, laterVars>>

\* ----------------------------------------------------------------- helpers
Min(a, b) == IF a <= b THEN a ELSE b
Max(a, b) == IF a >= b THEN a ELSE b

SeqsUpTo(S, n) == UNION {[1..k -> S] : k \in 0..n}

\* ------------------------------------------------------------------ images
\* An image is a sequence of rows, a row a sequence of pixels, a pixel a tuple
\* <<b, g, r>> of 8-bit values (numpy array of shape (h, w, 3), dtype uint8).
Height(img) == Len(img)                                   \* img.shape[0]
Width(img) == IF Len(img) = 0 THEN 0 ELSE Len(img[1])     \* img.shape[1]

\* numpy's reading of one bound of a slice a:b on an axis of length n
NpBound(i, n) == IF i < 0 THEN Max(i + n, 0) ELSE Min(i, n)
\* numpy basic slicing seq[a:b] (0-based, half-open) on a 1-based sequence
NpSlice(seq, a, b) == SubSeq(seq, NpBound(a, Len(seq)) + 1, NpBound(b, Len(seq)))
\* img[r0:r1, c0:c1]
NpSlice2D(img, r0, r1, c0, c1) ==
    LET rows == NpSlice(img, r0, r1)
    IN  [k \in 1..Len(rows) |-> NpSlice(rows[k], c0, c1)]

\* ------------------------------------------------------------- align_images
\* lines 520-524: center_crop
center_crop_from_end(img, target_h, target_w) ==
    LET h == Height(img)
        w == Width(img)
        start_h == h - target_h
        start_w == w - target_w
    IN  NpSlice2D(img, start_h, start_h + target_h, start_w, start_w + target_w)
center_crop(img, target_h, target_w) ==
    LET h == Height(img)
        w == Width(img)
        start_h == (h - target_h) \div 2
        start_w == (w - target_w) \div 2
    IN  NpSlice2D(img, start_h, start_h + target_h, start_w, start_w + target_w)

\* lines 512-526
align_images(a, b) ==
    LET min_h == Min(Height(a), Height(b))
        min_w == Min(Width(a), Width(b))
    IN  <<center_crop(a, min_h, min_w), center_crop(b, min_h, min_w)>>

\* A test image of the given size whose pixels are pairwise different: the pixel
\* of row r, column c (1-based) of image number n is <<r, c, n>>.
RampImage(h, w, n) == [r \in 1..h |-> [c \in 1..w |-> <<r, c, n>>]]

AlignInit ==
    /\ \E h1 \in 1..MaxDim, w1 \in 1..MaxDim : img1 = RampImage(h1, w1, 1)
    /\ \E h2 \in 1..MaxDim, w2 \in 1..MaxDim : img2 = RampImage(h2, w2, 2)
    /\ aligned = <<>>
    /\ apc = "input"

AlignCall ==
    /\ apc = "input"
    /\ aligned' = align_images(img1, img2)
    /\ apc' = "done"
    /\ UNCHANGED <<comp, mergeVars, imageVars, detectVars, drawVars, pipeVars, streamVars,
                   scanVars, laterVars>>

AlignNext == AlignCall

\* --------------------------------------------------- merge_overlapping_regions
PairRects == {<<x, y, w, h>> : x \in 0..MaxCoord, y \in 0..MaxCoord,
                               w \in 1..MaxSide, h \in 1..MaxSide}
UnitRects == {<<x, y, 1, 1>> : x \in 0..MaxCoord, y \in 0..MaxListY}
MergeInputs == [1..2 -> PairRects] \cup SeqsUpTo(UnitRects, MaxRegions)

\* line 594: one element of `expanded`
ExpandRegion(r, p) == <<r[1] - p, r[2] - p, r[3] + 2 * p, r[4] + 2 * p>>

\* line 629: one element of the returned list
ShrinkRegionPositionOnly(r, p) == <<r[1] + p, r[2] + p, r[3], r[4]>>
ShrinkRegion(r, p) == <<r[1] + p, r[2] + p, r[3] - 2 * p, r[4] - 2 * p>>

\* line 616: the axis-aligned overlap test on (x1,y1,w1,h1), (x2,y2,w2,h2)
OverlapsXOnly(a, b) == a[1] < b[1] + b[3] /\ a[1] + a[3] > b[1]
Overlaps(a, b) ==
    /\ a[1] < b[1] + b[3]
    /\ a[1] + a[3] > b[1]
    /\ a[2] < b[2] + b[4]
    /\ a[2] + a[4] > b[2]

\* lines 617-620, in the order the code assigns: x1 and y1 are overwritten
\* first, and the new x1, y1 are then used with the old w1, h1.
Absorb(a, b) ==
    LET x1 == Min(a[1], b[1])
        y1 == Min(a[2], b[2])
        w1 == Max(x1 + a[3], b[1] + b[3]) - x1
        h1 == Max(y1 + a[4], b[2] + b[4]) - y1
    IN  <<x1, y1, w1, h1>>

\* lines 610-622: the inner loop for j in range(i + 1, len(merged)), from j on.
\* Returns <<(x1,y1,w1,h1), used, changed>>.
RECURSIVE InnerLoop(_, _, _, _, _)
InnerLoop(m, cur, used, chg, j) ==
    IF j > Len(m) THEN <<cur, used, chg>>
    ELSE IF used[j] THEN InnerLoop(m, cur, used, chg, j + 1)
    ELSE IF Overlaps(cur, m[j])
         THEN InnerLoop(m, Absorb(cur, m[j]), [used EXCEPT ![j] = TRUE], TRUE, j + 1)
         ELSE InnerLoop(m, cur, used, chg, j + 1)

\* lines 604-625: the outer loop for i in range(len(merged)), from i on.
\* Returns <<new_merged, changed>>.
RECURSIVE OuterLoop(_, _, _, _, _)
OuterLoop(m, new, used, chg, i) ==
    IF i > Len(m) THEN <<new, chg>>
    ELSE IF used[i] THEN OuterLoop(m, new, used, chg, i + 1)
    ELSE LET r == InnerLoop(m, m[i], used, chg, i + 1)
         IN  OuterLoop(m, Append(new, r[1]), [r[2] EXCEPT ![i] = TRUE], r[3], i + 1)

\* lines 600-627: one pass of the while loop on `merged`
MergePassReportsNoChange(m) ==
    <<OuterLoop(m, <<>>, [k \in 1..Len(m) |-> FALSE], FALSE, 1)[1], FALSE>>
MergePassReportsChange(m) ==
    <<OuterLoop(m, <<>>, [k \in 1..Len(m) |-> FALSE], FALSE, 1)[1], TRUE>>
MergePass(m) == OuterLoop(m, <<>>, [k \in 1..Len(m) |-> FALSE], FALSE, 1)

MergeInit ==
    /\ regions \in MergeInputs
    /\ padding \in 0..MaxPad
    /\ merged = <<>>
    /\ changed = FALSE
    /\ passes = 0
    /\ mpc = "input"
    /\ mresult = <<>>

\* lines 591-597: the empty list returns at once; otherwise expand and enter
\* the loop with changed = True
MergeStart ==
    /\ mpc = "input"
    /\ IF regions = <<>>
       THEN /\ mpc' = "done"
            /\ mresult' = <<>>
            /\ UNCHANGED <<merged, changed>>
       ELSE /\ mpc' = "loop"
            /\ merged' = [k \in 1..Len(regions) |-> ExpandRegion(regions[k], padding)]
            /\ changed' = TRUE
            /\ UNCHANGED mresult
    /\ UNCHANGED <<regions, padding, passes>>
    /\ UNCHANGED notMerge

\* lines 599-627: one iteration of `while changed`
MergeLoop ==
    /\ mpc = "loop"
    /\ changed
    /\ LET r == MergePass(merged)
       IN  /\ merged' = r[1]
           /\ changed' = r[2]
    /\ passes' = passes + 1
    /\ UNCHANGED <<regions, padding, mpc, mresult>>
    /\ UNCHANGED notMerge

\* line 629: the loop has ended; shrink and return
MergeReturn ==
    /\ mpc = "loop"
    /\ ~changed
    /\ mresult' = [k \in 1..Len(merged) |-> ShrinkRegion(merged[k], padding)]
    /\ mpc' = "done"
    /\ UNCHANGED <<regions, padding, merged, changed, passes>>
    /\ UNCHANGED notMerge

MergeNext == MergeStart \/ MergeLoop \/ MergeReturn

\* lines 599-627 as a whole: passes until one leaves `changed` False
RECURSIVE MergeUntilStable(_)
MergeUntilStable(m) ==
    LET r == MergePass(m)
    IN  IF r[2] THEN MergeUntilStable(r[1]) ELSE r[1]

\* lines 589-629: the function as one value, for its callers
merge_overlapping_regions(regs, p) ==
    IF regs = <<>> THEN <<>>
    ELSE LET m == MergeUntilStable([k \in 1..Len(regs) |-> ExpandRegion(regs[k], p)])
         IN  [k \in 1..Len(m) |-> ShrinkRegion(m[k], p)]

\* line 589: the default of `padding`, which find_differences uses (line 584)
default_padding == 20

\* ---------------------------------------------------------- find_differences
edge_margin == 20      \* line 554

Abs(x) == IF x < 0 THEN -x ELSE x

\* line 542, cv2.absdiff at one pixel: the absolute difference per channel
absdiff(p, q) == <<Abs(p[1] - q[1]), Abs(p[2] - q[2]), Abs(p[3] - q[3])>>

\* line 545, cv2.cvtColor(COLOR_BGR2GRAY) at one pixel: the luminance-weighted
\* reduction 0.114 B + 0.587 G + 0.299 R in 14-bit fixed point, rounded
BGR2GRAY(p) == (1868 * p[1] + 9617 * p[2] + 4899 * p[3] + 8192) \div 16384

\* gray_diff at row r, column c (1-based) of the aligned pair
GrayDiffAt(a, b, r, c) == BGR2GRAY(absdiff(a[r][c], b[r][c]))

\* line 548, cv2.GaussianBlur with a 7x7 kernel and sigma 0: the separable kernel
\* (2, 7, 14, 18, 14, 7, 2) / 64, rounded.  Only pixels at least edge_margin
\* from every edge are read below, so the border rule is never used.
GaussKernel == <<2, 7, 14, 18, 14, 7, 2>>
RECURSIVE SumOver(_, _, _)
SumOver(S, f(_), acc) ==
    IF S = {} THEN acc
    ELSE LET x == CHOOSE y \in S : TRUE IN SumOver(S \ {x}, f, acc + f(x))
BlurredAt(a, b, r, c) ==
    LET row(i) == LET cell(j) == GaussKernel[i + 4] * GaussKernel[j + 4]
                                   * GrayDiffAt(a, b, r + i, c + j)
                  IN  SumOver(-3..3, cell, 0)
    IN  (SumOver(-3..3, row, 0) + 2048) \div 4096

\* line 551, cv2.threshold(THRESH_BINARY): 255 where the value is greater than the
\* threshold, 0 elsewhere
ThresholdInclusive(v, t) == IF v >= t THEN 255 ELSE 0
Threshold(v, t) == IF v > t THEN 255 ELSE 0

\* lines 554-558: the rows and columns within edge_margin of an edge are set to 0
\* (thresh[:20, :], thresh[-20:, :], thresh[:, :20], thresh[:, -20:])
InEdgeMargin(h, w, r, c) ==
    \/ r <= edge_margin
    \/ r > h - edge_margin
    \/ c <= edge_margin
    \/ c > w - edge_margin

\* `thresh` after line 558, at row r, column c of the aligned pair <<a, b>>
ThreshAt(a, b, t, r, c) ==
    IF InEdgeMargin(Height(a), Width(a), r, c) THEN 0
    ELSE Threshold(BlurredAt(a, b, r, c), t)

\* whether `thresh` is 0 everywhere after line 558.  cv2.erode and cv2.dilate
\* (lines 565-569) keep such a mask 0 everywhere, and cv2.findContours (line 572)
\* finds no contour in it.
MaskIsZero(a, b, t) ==
    \A r \in 1..Height(a) : \A c \in 1..Width(a) : ThreshAt(a, b, t, r, c) = 0

\* lines 539-572: the contours of the mask of the aligned pair.  The shapes that
\* erosion, dilation and contour tracing give for a non-zero mask are the
\* library's; they are the input cvContours.
FindContours(a, b, t, found) ==
    LET al == align_images(a, b)
    IN  IF MaskIsZero(al[1], al[2], t) THEN <<>> ELSE found

\* line 577: the area filter
AreaOkStrict(area, minArea) == area > minArea
AreaOk(area, minArea) == area >= minArea

\* line 580: w < img1.shape[1] * 0.8 and h < img1.shape[0] * 0.8 (on the floats
\* of the code the comparison agrees with the exact one for all sizes in use)
SizeOk(rect, imgW, imgH) == 5 * rect[3] < 4 * imgW /\ 5 * rect[4] < 4 * imgH

\* lines 574-581: the loop over the contours, from index k on
RECURSIVE FilterContours(_, _, _, _, _, _)
FilterContours(cs, k, minArea, imgW, imgH, acc) ==
    IF k > Len(cs) THEN acc
    ELSE IF AreaOk(cs[k].area, minArea) /\ SizeOk(cs[k].rect, imgW, imgH)
         THEN FilterContours(cs, k + 1, minArea, imgW, imgH, Append(acc, cs[k].rect))
         ELSE FilterContours(cs, k + 1, minArea, imgW, imgH, acc)

\* lines 574-586: filter the contours, merge what is left and return it
FilterAndMerge(cs, minArea, imgW, imgH) ==
    merge_overlapping_regions(FilterContours(cs, 1, minArea, imgW, imgH, <<>>),
                              default_padding)

\* lines 529-586 as a whole
find_differences(a, b, minArea, t, found) ==
    LET al == align_images(a, b)
    IN  FilterAndMerge(FindContours(a, b, t, found), minArea,
                       Width(al[1]), Height(al[1]))

\* Test images: a background colour with at most one rectangular patch
\* <<x, y, w, h>> (0-based corner) of another colour.
PatchImage(h, w, bg, patch, fg) ==
    [r \in 1..h |-> [c \in 1..w |->
        IF /\ patch[1] < c /\ c <= patch[1] + patch[3]
           /\ patch[2] < r /\ r <= patch[2] + patch[4]
        THEN fg ELSE bg]]
Black == <<0, 0, 0>>
Grey35 == <<35, 35, 35>>
Red == <<0, 0, 255>>
\* a patch that covers the blur kernel around the first pixel inside the margin,
\* and one pixel there
TestPatches == {<<edge_margin - 3, edge_margin - 3, 7, 7>>, <<edge_margin, edge_margin, 1, 1>>}
TestImages(h, w) ==
    {PatchImage(h, w, Black, p, fg) : p \in TestPatches, fg \in {Black, Grey35, Red}}
DetectSides == {2 * edge_margin + k : k \in 1..MaxInner}
DiffThresholds == {0, 35, 255}
MinAreas == {1, 80}

\* A contour as find_differences reads it: cv2.contourArea and cv2.boundingRect.
\* The contours of one list have different bounding rectangles.
TestRects == {<<10, 10, 12, 10>>, <<12, 8, 10, 12>>, <<4, 10, 33, 10>>}
ContourLists(minArea) ==
    LET cands == {[area |-> a, rect |-> rc] :
                    a \in {minArea - 1, minArea}, rc \in TestRects}
    IN  {cs \in SeqsUpTo(cands, MaxContours) :
            \A i, j \in 1..Len(cs) : i # j => cs[i].rect # cs[j].rect}

DetectInit ==
    /\ \E h \in DetectSides, w \in DetectSides :
          /\ img2 \in TestImages(h, w)
          /\ img1 \in {img2, PatchImage(h, w, Black, <<0, 0, 0, 0>>, Black)}
    /\ diff_threshold \in DiffThresholds
    /\ min_area \in MinAreas
    /\ cvContours \in IF MaskIsZero(img1, img2, diff_threshold)
                      THEN {<<>>} ELSE ContourLists(min_area)
    /\ contours = <<>>
    /\ differences = <<>>
    /\ dresult = <<>>
    /\ dpc = "input"

\* lines 539-572
DetectContours ==
    /\ dpc = "input"
    /\ contours' = FindContours(img1, img2, diff_threshold, cvContours)
    /\ dpc' = "contours"
    /\ UNCHANGED <<min_area, diff_threshold, cvContours, differences, dresult>>
    /\ UNCHANGED <<comp, mergeVars, imageVars, alignVars, drawVars, pipeVars, streamVars,
                   scanVars, laterVars>>

\* lines 574-581
DetectFilter ==
    /\ dpc = "contours"
    /\ LET al == align_images(img1, img2)
       IN  differences' =
               FilterContours(contours, 1, min_area, Width(al[1]), Height(al[1]), <<>>)
    /\ dpc' = "filtered"
    /\ UNCHANGED <<min_area, diff_threshold, cvContours, contours, dresult>>
    /\ UNCHANGED <<comp, mergeVars, imageVars, alignVars, drawVars, pipeVars, streamVars,
                   scanVars, laterVars>>

\* lines 584-586
DetectMerge ==
    /\ dpc = "filtered"
    /\ dresult' = merge_overlapping_regions(differences, default_padding)
    /\ dpc' = "done"
    /\ UNCHANGED <<min_area, diff_threshold, cvContours, contours, differences>>
    /\ UNCHANGED <<comp, mergeVars, imageVars, alignVars, drawVars, pipeVars, streamVars,
                   scanVars, laterVars>>

DetectNext == DetectContours \/ DetectFilter \/ DetectMerge

\* ---------------------------------------------------------- draw_differences
draw_padding == 15                  \* line 653
\* line 637: the default of aspect_ratio_threshold, 0.6, as the fraction 3/5
aspect_ratio_threshold_num == 3
aspect_ratio_threshold_den == 5

Min4(a, b, c, d) == Min(Min(a, b), Min(c, d))

\* lines 660-662: aspect_ratio = min(w, h) / max(w, h) if max(w, h) > 0 else 1,
\* and the test aspect_ratio >= aspect_ratio_threshold (on the floats of the code
\* the comparison agrees with the exact one on fractions)
UseCircleWidthOverHeight(w, h) ==
    IF h > 0
    THEN aspect_ratio_threshold_den * w >= aspect_ratio_threshold_num * h
    ELSE TRUE
UseCircle(w, h) ==
    IF Max(w, h) > 0
    THEN aspect_ratio_threshold_den * Min(w, h) >= aspect_ratio_threshold_num * Max(w, h)
    ELSE TRUE

\* line 657 / 658: the centre of a region
CenterX(region) == region[1] + region[3] \div 2
CenterY(region) == region[2] + region[4] \div 2

\* lines 667-676: the largest radius that keeps the circle 5 px inside the image
RadiusLimit(imgH, imgW, cx, cy) == Min4(cx, cy, imgW - cx, imgH - cy) - 5

\* lines 666-677: radius = min(radius, limit), then radius = max(radius, 20)
ClampRadiusFloorOnly(radius, limit) == Max(radius, 20)
ClampRadius(radius, limit) == Max(Min(radius, limit), 20)

\* lines 655-696: the body of the loop for the region of 0-based index i of an
\* image of shape <<imgH, imgW>>: the marker and the label drawn on `result`
DrawCall(imgH, imgW, region, i, textW) ==
    LET x == region[1]
        y == region[2]
        w == region[3]
        h == region[4]
        center_x == CenterX(region)
        center_y == CenterY(region)
        text_x == Max(5, center_x - textW \div 2)
    IN  IF UseCircle(w, h)
        THEN LET r0 == Max(w, h) \div 2 + draw_padding
                 radius == ClampRadius(r0, RadiusLimit(imgH, imgW, center_x, center_y))
             IN  [shape |-> "circle",
                  geom |-> <<center_x, center_y, radius>>,
                  label |-> i + 1,
                  text_org |-> <<text_x, Max(20, center_y - radius - 8)>>]
        ELSE LET rect_x1 == Max(0, x - draw_padding)
                 rect_y1 == Max(0, y - draw_padding)
                 rect_x2 == Min(imgW - 1, x + w + draw_padding)
                 rect_y2 == Min(imgH - 1, y + h + draw_padding)
             IN  [shape |-> "rectangle",
                  geom |-> <<rect_x1, rect_y1, rect_x2, rect_y2>>,
                  label |-> i + 1,
                  text_org |-> <<text_x, Max(20, rect_y1 - 8)>>]

\* lines 652-698 as a whole: the calls made on the copy, in order
draw_differences(shape, regs, textW) ==
    [k \in 1..Len(regs) |-> DrawCall(shape[1], shape[2], regs[k], k - 1, textW)]

\* Test regions: every width and height up to MaxDrawSide, the 10 x 100 strip and
\* the 40 x 40 square, at corners on the diagonal of the image.
DrawStep == 30
DrawSizes == ((1..MaxDrawSide) \X (1..MaxDrawSide)) \cup {<<10, 100>>, <<40, 40>>}
DrawRects == {<<k * DrawStep, k * DrawStep, sz[1], sz[2]>> :
                 k \in 0..MaxDrawPos, sz \in DrawSizes}
DrawInputs == {<<>>} \cup [1..1 -> DrawRects] \cup [1..2 -> DrawRects]
DrawShapes == {<<41, 41>>, <<150, 85>>}

DrawInit ==
    /\ drawShape \in DrawShapes
    /\ drawRegions \in DrawInputs
    /\ cvTextWidth \in 0..MaxTextWidth
    /\ drawCalls = <<>>
    /\ drawpc = "input"
    /\ drawResultIs = "none"
    /\ drawImgMarks = <<>>

\* line 652: ndarray.copy() gives a new buffer with the same pixels
NoCopy(buffer) == buffer
NdarrayCopy(buffer) == "copy"

\* lines 652-653: result = img.copy()
DrawStart ==
    /\ drawpc = "input"
    /\ drawpc' = "loop"
    /\ drawResultIs' = NdarrayCopy("img")
    /\ UNCHANGED <<drawShape, drawRegions, cvTextWidth, drawCalls, drawImgMarks>>
    /\ UNCHANGED <<comp, mergeVars, imageVars, alignVars, detectVars, pipeVars, streamVars,
                   scanVars, laterVars>>

\* lines 655-696: one iteration of the loop over enumerate(differences)
DrawRegion ==
    /\ drawpc = "loop"
    /\ Len(drawCalls) < Len(drawRegions)
    /\ LET i == Len(drawCalls)
           call == DrawCall(drawShape[1], drawShape[2], drawRegions[i + 1], i, cvTextWidth)
       IN  /\ drawCalls' = Append(drawCalls, call)
           /\ drawImgMarks' = IF drawResultIs = "img"
                              THEN Append(drawImgMarks, call) ELSE drawImgMarks
    /\ UNCHANGED <<drawShape, drawRegions, cvTextWidth, drawpc, drawResultIs>>
    /\ UNCHANGED <<comp, mergeVars, imageVars, alignVars, detectVars, pipeVars, streamVars,
                   scanVars, laterVars>>

\* line 698: return result
DrawReturn ==
    /\ drawpc = "loop"
    /\ Len(drawCalls) = Len(drawRegions)
    /\ drawpc' = "done"
    /\ UNCHANGED <<drawShape, drawRegions, cvTextWidth, drawCalls, drawResultIs, drawImgMarks>>
    /\ UNCHANGED <<comp, mergeVars, imageVars, alignVars, detectVars, pipeVars, streamVars,
                   scanVars, laterVars>>

DrawNext == DrawStart \/ DrawRegion \/ DrawReturn

\* ------------------------------- process_screenshot and save_result_images
\* Image bytes are named: "bad" is not an image (cv2.imdecode returns None), the
\* others are screenshots.  cv2.imdecode and extract_game_images are functions of
\* the bytes; a test screenshot is given by the two sub-images they yield.
ImageBytes == {"bad", "shotA", "shotB"}
PipeSide == 2 * edge_margin + 1
Plain(h, w) == PatchImage(h, w, Black, <<0, 0, 0, 0>>, Black)

\* lines 13-19, load_image_from_bytes: whether the bytes decode (img is not None)
Decodes(b) == b # "bad"

\* lines 36-225 (line 733): the sub-images of the test screenshots
ShotShape == <<200, 250>>           \* <<height, width>> of the sub-images of "shotA"
ShotA == <<Plain(ShotShape[1], ShotShape[2]),
           PatchImage(ShotShape[1], ShotShape[2], Black,
                      <<edge_margin - 3, edge_margin - 3, 7, 7>>, Red)>>
ShotB == <<Plain(PipeSide + 1, PipeSide), Plain(PipeSide + 1, PipeSide)>>
extract_game_images(b) == IF b = "shotA" THEN ShotA ELSE ShotB

\* the arguments of the calls made: (min_area, diff_threshold) with the defaults
\* of lines 713-714 and one other pair
default_min_area == 80
default_diff_threshold == 35
Configs == {<<default_min_area, default_diff_threshold>>, <<1, 0>>}
OutputDirs == {"./output"}          \* routers/image_diff.py line 83, the default
Prefixes == {"result"}              \* routers/image_diff.py line 84, the default
FileKinds == {"combined", "heatmap", "img1_marked", "img2_marked"}
\* lines 794-797: output_path / f"{filename_prefix}_<kind>.png"
PathOf(dir, prefix, kind) == <<dir, prefix, kind>>
Paths == {PathOf(d, pf, k) : d \in OutputDirs, pf \in Prefixes, k \in FileKinds}

Callers == {1, 2}
Operations == {"process_screenshot", "save_result_images"}

\* What the image stages give for each test screenshot, computed once: the shape
\* <<height, width>> of the aligned pair (lines 739 / 787), and whether the mask
\* of find_differences is 0 everywhere, per diff_threshold in use.
AlignedShapes ==
    {<<b, Height(align_images(extract_game_images(b)[1], extract_game_images(b)[2])[1]),
          Width(align_images(extract_game_images(b)[1], extract_game_images(b)[2])[1])>> :
        b \in ImageBytes \ {"bad"}}
AlignedShape(b) == LET f == CHOOSE g \in AlignedShapes : g[1] = b IN <<f[2], f[3]>>
ZeroMasks ==
    {key \in {<<b, cfg[2]>> : b \in ImageBytes \ {"bad"}, cfg \in Configs} :
        FindContours(extract_game_images(key[1])[1], extract_game_images(key[1])[2],
                     key[2], <<"some">>) = <<>>}

\* lines 736 / 785: find_differences on the sub-images of b; cvFound holds the
\* contours of lines 539-572
DetectedRegions(b, minArea, t) ==
    FilterAndMerge(cvFound[<<b, t>>], minArea, AlignedShape(b)[2], AlignedShape(b)[1])

\* lines 743 / 806: the list of dicts with a 1-based index
DifferenceDictsFromLog(diffs) ==
    [k \in 1..Len(diffs) |->
        [index |-> Cardinality(log) + k, x |-> diffs[k][1], y |-> diffs[k][2],
         width |-> diffs[k][3], height |-> diffs[k][4]]]
DifferenceDictsSorted(diffs) ==
    [k \in 1..Len(diffs) |->
        LET byX == CHOOSE j \in 1..Len(diffs) :
                       Cardinality({i \in 1..Len(diffs) : diffs[i][1] < diffs[j][1]}) = k - 1
        IN  [index |-> k, x |-> diffs[byX][1], y |-> diffs[byX][2],
             width |-> diffs[byX][3], height |-> diffs[byX][4]]]
DifferenceDicts(diffs) ==
    [k \in 1..Len(diffs) |->
        [index |-> k, x |-> diffs[k][1], y |-> diffs[k][2],
         width |-> diffs[k][3], height |-> diffs[k][4]]]

\* lines 749-756 / 788-791: the rendered images.  A marked image is the aligned
\* image it copies, the colour and the drawing calls made on the copy; np.hstack
\* and generate_heatmap are functions of their arguments.
Rendered(b, diffs) ==
    LET shape == AlignedShape(b)
        marked1 == [base |-> <<b, 1>>, color |-> <<0, 0, 255>>,
                    drawn |-> draw_differences(shape, diffs, cvTextWidth)]
        marked2 == [base |-> <<b, 2>>, color |-> <<0, 255, 0>>,
                    drawn |-> draw_differences(shape, diffs, cvTextWidth)]
    IN  [combined |-> <<"hstack", marked1, marked2>>,
         heatmap |-> <<"heatmap", b>>,
         img1_marked |-> marked1,
         img2_marked |-> marked2]

\* lines 30-33: image_to_base64
image_to_base64(img) == <<"base64", ".png", img>>

\* lines 747-761: the image buffers added to the result, only if return_images
FourBuffers(r) ==
    [marked_image_base64 |-> image_to_base64(r.combined),
     heatmap_base64 |-> image_to_base64(r.heatmap),
     image1_base64 |-> image_to_base64(r.img1_marked),
     image2_base64 |-> image_to_base64(r.img2_marked)]
ReturnedImagesAlways(r, return_images) == FourBuffers(r)
ReturnedImages(r, return_images) == IF return_images THEN FourBuffers(r) ELSE <<>>

\* lines 711-763: the value process_screenshot returns for decodable bytes
process_screenshot(b, minArea, t, return_images) ==
    LET diffs == DetectedRegions(b, minArea, t)
        r == Rendered(b, diffs)
    IN  [kind |-> "ok",
         difference_count |-> Len(diffs),
         differences |-> DifferenceDicts(diffs),
         image_size |-> [width |-> AlignedShape(b)[2], height |-> AlignedShape(b)[1]],
         images |-> ReturnedImages(r, return_images)]

\* lines 804-813: the value save_result_images returns
SaveResult(diffs, dir, prefix) ==
    [kind |-> "ok",
     difference_count |-> Len(diffs),
     differences |-> DifferenceDicts(diffs),
     saved_files |-> [combined |-> PathOf(dir, prefix, "combined"),
                      heatmap |-> PathOf(dir, prefix, "heatmap"),
                      image1_marked |-> PathOf(dir, prefix, "img1_marked"),
                      image2_marked |-> PathOf(dir, prefix, "img2_marked")]]

\* line 18: raise ValueError (the invalid-image error)
InvalidImage == [kind |-> "invalid_image"]
NoResult == [kind |-> "none"]

NoInvocation ==
    [op |-> "none", pc |-> "idle", image_bytes |-> "", min_area |-> 0,
     diff_threshold |-> 0, return_images |-> FALSE, output_dir |-> "",
     filename_prefix |-> "", diffs |-> <<>>, rendered |-> <<>>,
     created |-> {}, written |-> {}, seen |-> <<>>, result |-> NoResult]

\* the contour lists the library may find in a test screenshot whose mask is not 0
\* (one contour as wide as 80% of the image; two contours far apart)
PipeContourLists ==
    {<<[area |-> 80, rect |-> <<20, 20, 200, 10>>]>>,
     <<[area |-> 81, rect |-> <<80, 21, 10, 10>>], [area |-> 30, rect |-> <<20, 20, 10, 6>>]>>}

PipeInit ==
    /\ cvFound \in [{<<b, cfg[2]>> : b \in ImageBytes \ {"bad"}, cfg \in Configs}
                      -> {<<>>} \cup PipeContourLists]
    /\ \A key \in DOMAIN cvFound : key \in ZeroMasks <=> cvFound[key] = <<>>
    /\ inv = [c \in Callers |-> NoInvocation]
    /\ dirs \in SUBSET OutputDirs
    /\ files = [path \in Paths |-> "absent"]
    /\ log = {}
    /\ calls = 0
    /\ drawShape = <<0, 0>>
    /\ drawRegions = <<>>
    /\ cvTextWidth = 0
    /\ drawCalls = <<>>
    /\ drawpc = "idle"
    /\ drawResultIs = "none"
    /\ drawImgMarks = <<>>

pipeFrame ==
    <<comp, mergeVars, imageVars, alignVars, detectVars, drawVars, cvFound, streamVars,
      scanVars, laterVars>>
Free(c) == inv[c].pc \in {"idle", "done", "failed"}

\* a caller invokes process_screenshot (routers/image_diff.py lines 32, 62)
CallProcess(c) ==
    /\ Free(c)
    /\ calls < MaxCalls
    /\ \E b \in ImageBytes, cfg \in Configs, ri \in BOOLEAN :
          inv' = [inv EXCEPT ![c] =
                    [NoInvocation EXCEPT !.op = "process_screenshot", !.pc = "load",
                        !.image_bytes = b, !.min_area = cfg[1],
                        !.diff_threshold = cfg[2], !.return_images = ri]]
    /\ calls' = calls + 1
    /\ UNCHANGED <<dirs, files, log, pipeFrame>>

\* line 730: load_image_from_bytes, which raises for bytes that are no image
ProcessLoad(c) ==
    /\ inv[c].op = "process_screenshot"
    /\ inv[c].pc = "load"
    /\ IF Decodes(inv[c].image_bytes)
       THEN inv' = [inv EXCEPT ![c].pc = "run"]
       ELSE inv' = [inv EXCEPT ![c].pc = "failed", ![c].result = InvalidImage]
    /\ UNCHANGED <<dirs, files, log, calls, pipeFrame>>

\* lines 733-763: split, detect, align, render, return
ProcessReturn(c) ==
    /\ inv[c].op = "process_screenshot"
    /\ inv[c].pc = "run"
    /\ LET i == inv[c]
           r == process_screenshot(i.image_bytes, i.min_area, i.diff_threshold,
                                   i.return_images)
       IN  /\ inv' = [inv EXCEPT ![c].pc = "done", ![c].result = r]
           /\ log' = log \cup {<<<<i.image_bytes, i.min_area, i.diff_threshold,
                                   i.return_images>>, r>>}
    /\ UNCHANGED <<dirs, files, calls, pipeFrame>>

\* a caller invokes save_result_images (routers/image_diff.py line 94)
CallSave(c) ==
    /\ Free(c)
    /\ calls < MaxCalls
    /\ \E b \in ImageBytes, cfg \in Configs, d \in OutputDirs, pf \in Prefixes :
          inv' = [inv EXCEPT ![c] =
                    [NoInvocation EXCEPT !.op = "save_result_images", !.pc = "mkdir",
                        !.image_bytes = b, !.min_area = cfg[1],
                        !.diff_threshold = cfg[2], !.output_dir = d,
                        !.filename_prefix = pf]]
    /\ calls' = calls + 1
    /\ UNCHANGED <<dirs, files, log, pipeFrame>>

\* lines 779-780: output_path.mkdir(parents=True, exist_ok=True)
SaveMkdir(c) ==
    /\ inv[c].op = "save_result_images"
    /\ inv[c].pc = "mkdir"
    /\ dirs' = dirs \cup {inv[c].output_dir}
    /\ inv' = [inv EXCEPT ![c].pc = "load",
                          ![c].created = {inv[c].output_dir} \ dirs]
    /\ UNCHANGED <<files, log, calls, pipeFrame>>

\* lines 783-797: load (raises for bytes that are no image), split, detect, align,
\* render and name the files
SaveLoad(c) ==
    /\ inv[c].op = "save_result_images"
    /\ inv[c].pc = "load"
    /\ IF Decodes(inv[c].image_bytes)
       THEN LET i == inv[c]
                diffs == DetectedRegions(i.image_bytes, i.min_area, i.diff_threshold)
            IN  inv' = [inv EXCEPT ![c].pc = "write_combined", ![c].diffs = diffs,
                                   ![c].rendered = Rendered(i.image_bytes, diffs)]
       ELSE inv' = [inv EXCEPT ![c].pc = "failed", ![c].result = InvalidImage]
    /\ UNCHANGED <<dirs, files, log, calls, pipeFrame>>

\* lines 799-802: the four cv2.imwrite calls, in this order
NextWrite(kind) ==
    CASE kind = "combined" -> "write_heatmap"
      [] kind = "heatmap" -> "write_img1_marked"
      [] kind = "img1_marked" -> "write_img2_marked"
      [] kind = "img2_marked" -> "return"
WritePc(kind) ==
    CASE kind = "combined" -> "write_combined"
      [] kind = "heatmap" -> "write_heatmap"
      [] kind = "img1_marked" -> "write_img1_marked"
      [] kind = "img2_marked" -> "write_img2_marked"
SaveWrite(c) ==
    /\ inv[c].op = "save_result_images"
    /\ \E kind \in FileKinds :
          /\ inv[c].pc = WritePc(kind)
          /\ LET path == PathOf(inv[c].output_dir, inv[c].filename_prefix, kind)
             IN  /\ files' = [files EXCEPT ![path] = inv[c].rendered[kind]]
                 /\ inv' = [inv EXCEPT ![c].pc = NextWrite(kind),
                                       ![c].written = inv[c].written \cup {path}]
    /\ UNCHANGED <<dirs, log, calls, pipeFrame>>

\* lines 804-813: return; `seen` records what the reported files hold at that moment
SaveReturn(c) ==
    /\ inv[c].op = "save_result_images"
    /\ inv[c].pc = "return"
    /\ LET i == inv[c]
       IN  inv' = [inv EXCEPT
                ![c].pc = "done",
                ![c].result = SaveResult(i.diffs, i.output_dir, i.filename_prefix),
                ![c].seen = [kind \in FileKinds |->
                               files[PathOf(i.output_dir, i.filename_prefix, kind)]]]
    /\ UNCHANGED <<dirs, files, log, calls, pipeFrame>>

PipeNext ==
    \E c \in Callers :
        \/ CallProcess(c)
        \/ ProcessLoad(c)
        \/ ProcessReturn(c)
        \/ CallSave(c)
        \/ SaveMkdir(c)
        \/ SaveLoad(c)
        \/ SaveWrite(c)
        \/ SaveReturn(c)

\* ------------------------------------- screen_stream (routers/adb.py, /stream)
default_interval_ms == 200          \* line 109, and the default of line 178
min_interval_ms == 15               \* line 179
max_interval_ms == 2000             \* line 179

\* what a client may send as "interval": an integer <<"number", n>>, nothing, or
\* something that is not a number
IntervalValues == {0, 50, 100, 3000}
ClientMessages ==
    [action : {"set_interval"},
     interval : {<<"number", n>> : n \in IntervalValues} \cup {<<"missing", 0>>, <<"text", 0>>}]
        \cup [action : {"pause", "resume", "stop", "other"}, interval : {<<"missing", 0>>}]

\* line 179: max(15, min(2000, new_interval))
ClampInterval(new_interval) == Max(min_interval_ms, Min(max_interval_ms, new_interval))

\* lines 106-113 and 153-161: accept, the locals, the first status message
StreamInit ==
    /\ interval_ms = default_interval_ms
    /\ is_paused = FALSE
    /\ is_streaming = TRUE
    /\ connected = TRUE
    /\ recv_alive = TRUE
    /\ spc = "frame"
    /\ slept_ms = 0
    /\ received = 0

streamFrame ==
    <<comp, mergeVars, imageVars, alignVars, detectVars, drawVars, pipeVars, scanVars, laterVars>>

\* lines 166-205: receive_messages gets one message and handles it.  An interval
\* that is no number makes min() raise, which ends the task (line 204).
StreamReceive ==
    /\ recv_alive /\ is_streaming /\ connected
    /\ received < MaxMessages
    /\ received' = received + 1
    /\ \E msg \in ClientMessages :
          CASE msg.action = "set_interval" ->
                 IF msg.interval[1] = "text"
                 THEN /\ recv_alive' = FALSE
                      /\ UNCHANGED <<interval_ms, is_paused, is_streaming>>
                 ELSE /\ interval_ms' =
                            ClampInterval(IF msg.interval[1] = "missing"
                                          THEN default_interval_ms
                                          ELSE msg.interval[2])
                      /\ UNCHANGED <<is_paused, is_streaming, recv_alive>>
            [] msg.action = "pause" ->
                 is_paused' = TRUE /\ UNCHANGED <<interval_ms, is_streaming, recv_alive>>
            [] msg.action = "resume" ->
                 is_paused' = FALSE /\ UNCHANGED <<interval_ms, is_streaming, recv_alive>>
            [] msg.action = "stop" ->
                 is_streaming' = FALSE /\ UNCHANGED <<interval_ms, is_paused, recv_alive>>
            [] OTHER -> UNCHANGED <<interval_ms, is_paused, is_streaming, recv_alive>>
    /\ UNCHANGED <<connected, spc, slept_ms, streamFrame>>

\* line 167: the loop of receive_messages ends when is_streaming is false
StreamReceiveExit ==
    /\ recv_alive /\ ~is_streaming
    /\ recv_alive' = FALSE
    /\ UNCHANGED <<interval_ms, is_paused, is_streaming, connected, spc, slept_ms, received,
                   streamFrame>>

\* the client closes the connection: receive_json raises, the task ends (line 204)
StreamDisconnect ==
    /\ connected /\ spc # "closed"
    /\ connected' = FALSE
    /\ recv_alive' = FALSE
    /\ UNCHANGED <<interval_ms, is_paused, is_streaming, spc, slept_ms, received, streamFrame>>

\* lines 213-215 and 218-236: one test of the main loop and the frame it sends;
\* sending on a closed connection raises and the handler closes
StreamFrame ==
    /\ spc = "frame"
    /\ IF ~is_streaming \/ (~is_paused /\ ~connected)
       THEN spc' = "closed" /\ connected' = FALSE /\ recv_alive' = FALSE
       ELSE spc' = "sleep" /\ UNCHANGED <<connected, recv_alive>>
    /\ UNCHANGED <<interval_ms, is_paused, is_streaming, slept_ms, received, streamFrame>>

\* line 216: await asyncio.sleep(interval_ms / 1000.0)
StreamSleep ==
    /\ spc = "sleep"
    /\ slept_ms' = interval_ms
    /\ spc' = "frame"
    /\ UNCHANGED <<interval_ms, is_paused, is_streaming, connected, recv_alive, received,
                   streamFrame>>

StreamNext ==
    StreamReceive \/ StreamReceiveExit \/ StreamDisconnect \/ StreamFrame \/ StreamSleep

\* ------------------------- extract_game_images: the row scan (lines 77-96)
\* The scan reads, per row y, is_content = row_variance_smooth[y] > var_threshold
\* (line 82); scanRows[y + 1] is that value.  Test screenshots have up to MaxRuns
\* runs of content rows laid on a background of other rows.
ScanHeights == {20, 21}
RunLengths == {2, 3, 4}
RunStarts(height) == {0, 1, 9, height - 4, height - 3}
RunsIn(height) ==
    {<<a, a + n>> : a \in RunStarts(height), n \in RunLengths} \cap
        {<<a, b>> : a \in 0..height, b \in 0..height}
RowsOf(height, runs) ==
    [k \in 1..height |-> \E i \in 1..Len(runs) : runs[i][1] < k /\ k <= runs[i][2]]

\* lines 90 and 95: region_height > height * 0.15 (on the floats of the code the
\* comparison agrees with the exact one for all heights up to 5000)
LongEnough(region_height, height) == 20 * region_height > 3 * height

\* lines 91 and 96: the region appended when a run ends before row y
RegionThrough(start, y) == <<start, y + 1>>
RegionUpTo(start, y) == <<start, y>>

\* lines 77-79
ScanInit ==
    /\ \E h \in ScanHeights : \E runs \in SeqsUpTo(RunsIn(h), MaxRuns) :
          scanRows = RowsOf(h, runs)
    /\ scan_y = 0
    /\ in_content = FALSE
    /\ content_start = 0
    /\ content_regions = <<>>
    /\ scanpc = "loop"

scanFrame ==
    <<comp, mergeVars, imageVars, alignVars, detectVars, drawVars, pipeVars, streamVars,
      laterVars>>

\* lines 81-91: one iteration of the loop for y in range(height)
ScanRow ==
    /\ scanpc = "loop"
    /\ scan_y < Len(scanRows)
    /\ LET is_content == scanRows[scan_y + 1]
           region_height == scan_y - content_start
       IN  IF is_content /\ ~in_content
           THEN /\ in_content' = TRUE
                /\ content_start' = scan_y
                /\ UNCHANGED content_regions
           ELSE IF ~is_content /\ in_content
           THEN /\ in_content' = FALSE
                /\ content_regions' =
                      IF LongEnough(region_height, Len(scanRows))
                      THEN Append(content_regions, RegionUpTo(content_start, scan_y))
                      ELSE content_regions
                /\ UNCHANGED content_start
           ELSE UNCHANGED <<in_content, content_start, content_regions>>
    /\ scan_y' = scan_y + 1
    /\ UNCHANGED <<scanRows, scanpc, scanFrame>>

\* line 81: the loop ends after the last row
ScanLoopEnd ==
    /\ scanpc = "loop"
    /\ scan_y = Len(scanRows)
    /\ scanpc' = "tail"
    /\ UNCHANGED <<scanRows, scan_y, in_content, content_start, content_regions, scanFrame>>

\* lines 93-96: the run that reaches the last row
ScanTail ==
    /\ scanpc = "tail"
    /\ LET height == Len(scanRows)
           region_height == height - content_start
       IN  content_regions' =
               IF in_content /\ LongEnough(region_height, height)
               THEN Append(content_regions, RegionUpTo(content_start, height))
               ELSE content_regions
    /\ scanpc' = "done"
    /\ UNCHANGED <<scanRows, scan_y, in_content, content_start, scanFrame>>

ScanNext == ScanRow \/ ScanLoopEnd \/ ScanTail

\* ---------- extract_game_images: choosing the two regions (lines 98-217)
\* A region is a half-open row interval <<start, end>>.
RegionHeight(r) == r[2] - r[1]

\* sorted(content_regions, key=lambda r: r[0]) (lines 106, 118): a stable sort
RECURSIVE InsertByStart(_, _)
InsertByStart(sorted, r) ==
    IF sorted = <<>> THEN <<r>>
    ELSE IF sorted[Len(sorted)][1] <= r[1] THEN Append(sorted, r)
    ELSE Append(InsertByStart(SubSeq(sorted, 1, Len(sorted) - 1), r), sorted[Len(sorted)])
RECURSIVE SortByStart(_)
SortByStart(rs) ==
    IF rs = <<>> THEN <<>>
    ELSE InsertByStart(SortByStart(SubSeq(rs, 1, Len(rs) - 1)), rs[Len(rs)])

\* line 128: height_diff < best_height_diff, where best_height_diff starts at inf
LastPairWins(height_diff, best) == TRUE
BelowBest(height_diff, best) == best[1] = "inf" \/ height_diff < best[2]

\* Test screenshots for the case of two or more regions: 40 rows, in which the
\* row scan records regions of 7 rows and more with gaps between them.
SelectHeights == {40}
RECURSIVE LayRegions(_, _, _, _)
LayRegions(lens, gaps, k, from) ==
    IF k > Len(lens) THEN <<>>
    ELSE <<<<from + gaps[k], from + gaps[k] + lens[k]>>>>
            \o LayRegions(lens, gaps, k + 1, from + gaps[k] + lens[k])
RegionLists(n, height) ==
    {rs \in {LayRegions(lens, gaps, 1, 0) : lens \in [1..n -> 7..(7 + MaxSpread)],
                                              gaps \in [1..n -> 1..2]} :
        rs[n][2] <= height}

\* lines 99-104, 106-107: exactly two regions are used as they are, in order
SelectTwo ==
    /\ splitpc = "choose"
    /\ Len(splitRegions) = 2
    /\ LET regs == SortByStart(splitRegions)
       IN  region1' = regs[1] /\ region2' = regs[2]
    /\ splitpc' = "chosen"
    /\ UNCHANGED <<splitHeight, splitRegions, splitProfile, sorted_regions, sel_i, best_pair,
                   best_height_diff, split_band, splitFrame>>

\* lines 108-118: three or more regions
SelectStart ==
    /\ splitpc = "choose"
    /\ Len(splitRegions) >= 3
    /\ best_pair' = <<>>
    /\ best_height_diff' = <<"inf", 0>>
    /\ sorted_regions' = SortByStart(splitRegions)
    /\ sel_i' = 0
    /\ splitpc' = "pairs"
    /\ UNCHANGED <<splitHeight, splitRegions, splitProfile, split_band, region1, region2,
                   splitFrame>>

\* lines 120-130: one iteration of for i in range(len(sorted_regions) - 1)
SelectStep ==
    /\ splitpc = "pairs"
    /\ sel_i < Len(sorted_regions) - 1
    /\ LET r1 == sorted_regions[sel_i + 1]
           r2 == sorted_regions[sel_i + 2]
           height_diff == Abs(RegionHeight(r1) - RegionHeight(r2))
       IN  IF BelowBest(height_diff, best_height_diff)
           THEN /\ best_height_diff' = <<"num", height_diff>>
                /\ best_pair' = <<r1, r2>>
           ELSE UNCHANGED <<best_height_diff, best_pair>>
    /\ sel_i' = sel_i + 1
    /\ UNCHANGED <<splitHeight, splitRegions, splitProfile, sorted_regions, split_band,
                   region1, region2, splitpc, splitFrame>>

\* lines 132-139: the pair found, or else the two highest regions, in order
RECURSIVE TwoHighest(_)
TwoHighest(rs) ==
    LET first == CHOOSE i \in 1..Len(rs) :
                     \A j \in 1..Len(rs) :
                         \/ RegionHeight(rs[j]) < RegionHeight(rs[i])
                         \/ RegionHeight(rs[j]) = RegionHeight(rs[i]) /\ i <= j
        rest == [k \in 1..(Len(rs) - 1) |-> IF k < first THEN rs[k] ELSE rs[k + 1]]
    IN  IF Len(rs) <= 1 THEN rs ELSE <<rs[first]>> \o SubSeq(TwoHighest(rest), 1, 1)
SelectEnd ==
    /\ splitpc = "pairs"
    /\ sel_i = Len(sorted_regions) - 1
    /\ IF best_pair # <<>>
       THEN region1' = best_pair[1] /\ region2' = best_pair[2]
       ELSE LET regs == SortByStart(TwoHighest(splitRegions))
            IN  region1' = regs[1] /\ region2' = regs[2]
    /\ splitpc' = "chosen"
    /\ UNCHANGED <<splitHeight, splitRegions, splitProfile, sorted_regions, sel_i, best_pair,
                   best_height_diff, split_band, splitFrame>>

\* ---------- extract_game_images: one region, split in its middle (lines 141-210)
\* The two smoothed row profiles have two levels: the rows of a band, given by
\* its offsets from mid_start, and the rows outside it:
\* <<band_from, band_to, edge_in, edge_out, var_in, var_out>>.
InBand(p, mid_start, y) == mid_start + p[1] <= y /\ y < mid_start + p[2]
RowEdge(p, mid_start, y) == IF InBand(p, mid_start, y) THEN p[3] ELSE p[4]
RowVar(p, mid_start, y) == IF InBand(p, mid_start, y) THEN p[5] ELSE p[6]
SetMax(S) == CHOOSE x \in S : \A y \in S : y <= x
SetMin(S) == CHOOSE x \in S : \A y \in S : x <= y

\* lines 160-174: combined_score = edges_norm * 2 + (1 - var_norm), multiplied
\* here by both ranges so that it stays an integer; np.argmax gives the first
\* row of the highest score
SplitRow(p, mid_start, mid_end) ==
    LET rows == mid_start..(mid_end - 1)
        emin == SetMin({RowEdge(p, mid_start, y) : y \in rows})
        emax == SetMax({RowEdge(p, mid_start, y) : y \in rows})
        vmin == SetMin({RowVar(p, mid_start, y) : y \in rows})
        vmax == SetMax({RowVar(p, mid_start, y) : y \in rows})
        de == IF emax > emin THEN emax - emin ELSE 1
        dv == IF vmax > vmin THEN vmax - vmin ELSE 1
        edges_norm(y) == IF emax > emin THEN RowEdge(p, mid_start, y) - emin ELSE 0
        var_norm(y) == IF vmax > vmin THEN RowVar(p, mid_start, y) - vmin ELSE dv
        combined_score(y) == edges_norm(y) * 2 * dv + (dv - var_norm(y)) * de
    IN  CHOOSE y \in rows :
            \A z \in rows :
                \/ combined_score(z) < combined_score(y)
                \/ (combined_score(z) = combined_score(y) /\ y <= z)

\* lines 183-190: for y in range(split_row, mid_start, -1); `edge` is
\* row_edge_smooth[split_row], so that edge_threshold is edge * 0.5.  The loop
\* ends at the first row it visits that is not above the threshold and has
\* only rows below the threshold before it; split_start is the last row above
\* the threshold that it visited.
AboveThreshold(p, mid_start, edge, y) == 2 * RowEdge(p, mid_start, y) > edge
BreaksUp(p, mid_start, edge, y) ==
    LET look_ahead == Min(5, y - mid_start)
    IN  /\ ~AboveThreshold(p, mid_start, edge, y)
        /\ look_ahead > 0
        /\ 2 * SetMax({RowEdge(p, mid_start, k) : k \in (y - look_ahead)..(y - 1)}) < edge
ExpandUp(p, mid_start, edge, split_row) ==
    LET range == (mid_start + 1)..split_row
        breaks == {y \in range : BreaksUp(p, mid_start, edge, y)}
        last == IF breaks = {} THEN mid_start ELSE SetMax(breaks)
        above == {y \in range : y > last /\ AboveThreshold(p, mid_start, edge, y)}
    IN  IF above = {} THEN split_row ELSE SetMin(above)

\* lines 193-199: for y in range(split_row, mid_end)
BreaksDown(p, mid_start, mid_end, edge, y) ==
    LET look_ahead == Min(5, mid_end - y - 1)
    IN  /\ ~AboveThreshold(p, mid_start, edge, y)
        /\ look_ahead > 0
        /\ 2 * SetMax({RowEdge(p, mid_start, k) : k \in y..(y + look_ahead - 1)}) < edge
ExpandDown(p, mid_start, mid_end, edge, split_row) ==
    LET range == split_row..(mid_end - 1)
        breaks == {y \in range : BreaksDown(p, mid_start, mid_end, edge, y)}
        last == IF breaks = {} THEN mid_end ELSE SetMin(breaks)
        above == {y \in range : y < last /\ AboveThreshold(p, mid_start, edge, y)}
    IN  IF above = {} THEN split_row ELSE SetMax(above)

\* line 202: max(2, int(region_height * 0.005))
MinSplitGap(region_height) == Max(2, region_height \div 200)

\* lines 203-205: the band when the one found is narrower than the gap
ForcedBand(split_row, min_split_gap) ==
    <<split_row - (min_split_gap \div 2), split_row + (min_split_gap \div 2)>>

\* lines 141-210
SplitSingle ==
    /\ splitpc = "choose"
    /\ Len(splitRegions) = 1
    /\ LET region_start == splitRegions[1][1]
           region_end == splitRegions[1][2]
           region_height == region_end - region_start
           mid_start == region_start + ((region_height * 2) \div 5)
           mid_end == region_start + ((region_height * 3) \div 5)
           split_row == SplitRow(splitProfile, mid_start, mid_end)
           edge == RowEdge(splitProfile, mid_start, split_row)
           up == ExpandUp(splitProfile, mid_start, edge, split_row)
           down == ExpandDown(splitProfile, mid_start, mid_end, edge, split_row)
           min_split_gap == MinSplitGap(region_height)
           band == IF down - up < min_split_gap
                   THEN ForcedBand(split_row, min_split_gap)
                   ELSE <<up, down>>
       IN  /\ split_band' = <<split_row, band[1], band[2], min_split_gap>>
           /\ region1' = <<region_start, band[1]>>
           /\ region2' = <<band[2] + 1, region_end>>
    /\ splitpc' = "chosen"
    /\ UNCHANGED <<splitHeight, splitRegions, splitProfile, sorted_regions, sel_i, best_pair,
                   best_height_diff, splitFrame>>

\* ---------- extract_game_images: no region, fixed fractions (lines 212-216)
FractionRegions(height) ==
    <<<<(height * 17) \div 100, (height * 48) \div 100>>,
      <<(height * 52) \div 100, (height * 83) \div 100>>>>
SplitNone ==
    /\ splitpc = "choose"
    /\ Len(splitRegions) = 0
    /\ region1' = FractionRegions(splitHeight)[1]
    /\ region2' = FractionRegions(splitHeight)[2]
    /\ splitpc' = "chosen"
    /\ UNCHANGED <<splitHeight, splitRegions, splitProfile, sorted_regions, sel_i, best_pair,
                   best_height_diff, split_band, splitFrame>>

\* ---------- step 6 and what process_screenshot does with the two images
\* screenshot[region[0] : region[1], :] (lines 219-220): the number of rows
SliceRows(height, region) ==
    Max(0, Min(region[2], height) - Min(region[1], height))
\* apply_crop (lines 283-296) keeps at least one row of an image that has one:
\* it returns img[t:b] with b - t >= 10, or the rows int(h * 0.02) to
\* h - int(h * 0.02); of an image without rows it returns no row
CroppedRows(h) == IF h = 0 THEN 0 ELSE Max(1, h - 2 * ((h * 2) \div 100))
\* find_differences (lines 539-545) converts the difference of the two
\* center-cropped images with cv2.cvtColor, which raises cv2.error for an
\* image without rows; process_screenshot does not catch it (lines 733-736)
SplitExtract ==
    /\ splitpc = "chosen"
    /\ LET rows1 == CroppedRows(SliceRows(splitHeight, region1))
           rows2 == CroppedRows(SliceRows(splitHeight, region2))
       IN  splitpc' = IF Min(rows1, rows2) = 0 THEN "error" ELSE "done"
    /\ UNCHANGED <<splitHeight, splitRegions, splitProfile, sorted_regions, sel_i, best_pair,
                   best_height_diff, split_band, region1, region2, splitFrame>>

\* Test inputs of step 5
SingleHeights == {100, 400, 600, 700}
SplitProfiles ==
    {<<0, 0, 0, 0, 50, 50>>}
    \cup {<<from, from + width, 10, edge_out, 10, 50>> :
              from \in {0, 3, 10}, width \in {1, 2, 3, 5}, edge_out \in {0, 4, 5, 6}}
NoneHeights == {1, 2, 3, 4, 5, 10, 100, 1920}
SplitInit ==
    /\ \/ /\ splitHeight \in SelectHeights
          /\ splitRegions \in UNION {RegionLists(n, splitHeight) : n \in 2..MaxPairRegions}
          /\ splitProfile = <<>>
       \/ /\ splitHeight \in SingleHeights
          /\ splitRegions = <<<<0, splitHeight>>>>
          /\ splitProfile \in SplitProfiles
       \/ /\ splitHeight \in NoneHeights
          /\ splitRegions = <<>>
          /\ splitProfile = <<>>
    /\ sorted_regions = <<>>
    /\ sel_i = 0
    /\ best_pair = <<>>
    /\ best_height_diff = <<"inf", 0>>
    /\ split_band = <<>>
    /\ region1 = <<>>
    /\ region2 = <<>>
    /\ splitpc = "choose"
SplitNext ==
    \/ SelectTwo
    \/ SelectStart
    \/ SelectStep
    \/ SelectEnd
    \/ SplitSingle
    \/ SplitNone
    \/ SplitExtract

\* ---------- crop_image_borders_unified (lines 228-298)
margin == 3
h_margin == 5

\* get_unified_crop (lines 264-275); ratio > 0.5 is 2 * min > max
get_unified_crop(v1, v2) ==
    IF v1 = 0 /\ v2 = 0 THEN 0
    ELSE IF v1 > 0 /\ v2 > 0
         THEN IF 2 * Min(v1, v2) > Max(v1, v2)
              THEN Min(v1, v2)
              ELSE Max(v1, v2) \div 2
         ELSE Max(v1, v2)

\* apply_crop (lines 283-296): the slice <<t, b, l, r>> taken of an image of
\* h rows and w columns, for the unified widths u = [left, right, top, bottom]
apply_crop(shape, u) ==
    LET h == shape[1]
        w == shape[2]
        t == Min(u.top + margin, h \div 4)
        b == Max(h - u.bottom - margin, (h * 3) \div 4)
        l == Min(u.left + h_margin, w \div 4)
        r == Max(w - u.right - h_margin, (w * 3) \div 4)
        margin_h == (h * 2) \div 100
        margin_w == (w * 2) \div 100
    IN  IF b - t < 10 \/ r - l < 10
        THEN <<margin_h, h - margin_h, margin_w, w - margin_w>>
        ELSE <<t, b, l, r>>

\* detect_uniform_border_width returns a width below
\* min(max_search, dimension // 4) (lines 327, 336, 367, 375), and
\* max_search is int(w * 0.2) or int(h * 0.1) (lines 251-260)
WidthChoices == {0, 1, 2, 4, 9}
Detectable(limit, dimension) ==
    {v \in WidthChoices : v = 0 \/ v < Min(limit, dimension \div 4)}
CropShapes == {<<8, 60>>, <<40, 60>>, <<200, 60>>}
DetectedWidths(shape1, shape2) ==
    [left1 : Detectable(shape1[2] \div 5, shape1[2]) \cap {0, 4},
     right1 : Detectable(shape1[2] \div 5, shape1[2]) \cap {0, 4},
     top1 : Detectable(shape1[1] \div 10, shape1[1]),
     bottom1 : Detectable(shape1[1] \div 10, shape1[1]),
     left2 : Detectable(shape2[2] \div 5, shape2[2]) \cap {0, 4},
     right2 : Detectable(shape2[2] \div 5, shape2[2]) \cap {0, 4},
     top2 : Detectable(shape2[1] \div 10, shape2[1]),
     bottom2 : Detectable(shape2[1] \div 10, shape2[1])]

\* lines 246-260
CropInit ==
    /\ cropShapes \in CropShapes \X CropShapes
    /\ cropDetected \in DetectedWidths(cropShapes[1], cropShapes[2])
    /\ cropUnified = <<>>
    /\ cropSlices = <<>>
    /\ croppc = "detected"

\* lines 277-280
CropUnify ==
    /\ croppc = "detected"
    /\ cropUnified' = [left |-> get_unified_crop(cropDetected.left1, cropDetected.left2),
                       right |-> get_unified_crop(cropDetected.right1, cropDetected.right2),
                       top |-> get_unified_crop(cropDetected.top1, cropDetected.top2),
                       bottom |-> get_unified_crop(cropDetected.bottom1, cropDetected.bottom2)]
    /\ croppc' = "unified"
    /\ UNCHANGED <<cropShapes, cropDetected, cropSlices, cropFrame>>

\* line 298: apply_crop(img1) and then apply_crop(img2)
CropApplyFirst ==
    /\ croppc = "unified"
    /\ cropSlices' = <<apply_crop(cropShapes[1], cropUnified)>>
    /\ croppc' = "first"
    /\ UNCHANGED <<cropShapes, cropDetected, cropUnified, cropFrame>>
CropApplySecond ==
    /\ croppc = "first"
    /\ cropSlices' = Append(cropSlices, apply_crop(cropShapes[2], cropUnified))
    /\ croppc' = "done"
    /\ UNCHANGED <<cropShapes, cropDetected, cropUnified, cropFrame>>
CropNext ==
    \/ CropUnify
    \/ CropApplyFirst
    \/ CropApplySecond

\* ---------- detect_uniform_border_width (lines 309-396)
\* lines 327 and 367: min(max_search, w // 4) for the sides left and right,
\* min(max_search, h // 4) for top and bottom
Dimension(shape, side) == IF side \in {"left", "right"} THEN shape[2] ELSE shape[1]
SearchRange(shape, side, limit) == Min(limit, Dimension(shape, side) \div 4)

\* lines 360-362 and 393-394: an offset that fails the test ends the loop
NeverBreaks(ok) == FALSE
BreaksAt(ok) == ~ok

BorderDims == {d \in 0..MaxBorderDim : d % 4 = 0 \/ d = MaxBorderDim}
BorderInit ==
    /\ borderShape \in BorderDims \X BorderDims
    /\ borderSide \in {"left", "right", "top", "bottom"}
    /\ max_search \in {Dimension(borderShape, borderSide) \div 5,
                        Dimension(borderShape, borderSide) \div 10, 100}
    /\ borderTest \in [1..(Dimension(borderShape, borderSide) \div 4) -> BOOLEAN]
    /\ border_offset = 1
    /\ border_width = 0
    /\ borderpc = "loop"

\* lines 336-362 and 375-394: one iteration of for offset in range(1, search_range)
BorderStep ==
    /\ borderpc = "loop"
    /\ border_offset < SearchRange(borderShape, borderSide, max_search)
    /\ border_width' = IF borderTest[border_offset] THEN border_offset ELSE border_width
    /\ IF BreaksAt(borderTest[border_offset])
       THEN borderpc' = "returned" /\ UNCHANGED border_offset
       ELSE border_offset' = border_offset + 1 /\ UNCHANGED borderpc
    /\ UNCHANGED <<borderShape, borderSide, max_search, borderTest, borderFrame>>

\* lines 364 and 396: the range is exhausted
BorderReturn ==
    /\ borderpc = "loop"
    /\ border_offset >= SearchRange(borderShape, borderSide, max_search)
    /\ borderpc' = "returned"
    /\ UNCHANGED <<borderShape, borderSide, max_search, borderTest, border_offset,
                   border_width, borderFrame>>
BorderNext ==
    \/ BorderStep
    \/ BorderReturn

\* ---------- ScrcpyService.start_recording, stop_recording (scrcpy_service.py)
\* The service is one object (line 1166) used by every request of the event
\* loop; a coroutine runs without interruption from one await to the next.
RecTasks == 1..MaxRecTasks
AtRest == [pc |-> "idle", waits_on |-> 0]

\* lines 118-120
RecInit ==
    /\ exe_exists \in BOOLEAN
    /\ is_recording = FALSE
    /\ recording_process = 0
    /\ recording_file = "none"
    /\ recRunning = {}
    /\ recSpawned = 0
    /\ recCalls = 0
    /\ recTask = [t \in RecTasks |-> AtRest]
    /\ recResult = [t \in RecTasks |-> "none"]

\* lines 915-957: start_recording up to the await of create_subprocess_exec
StartRecordingCall(t) ==
    /\ recTask[t].pc = "idle"
    /\ recCalls < MaxRecCalls
    /\ recCalls' = recCalls + 1
    /\ IF ~exe_exists
       THEN recResult' = [recResult EXCEPT ![t] = "no_exe"] /\ UNCHANGED recTask
       ELSE IF is_recording
       THEN recResult' = [recResult EXCEPT ![t] = "busy"] /\ UNCHANGED recTask
       ELSE /\ recTask' = [recTask EXCEPT ![t] = [pc |-> "spawning", waits_on |-> 0]]
            /\ recResult' = [recResult EXCEPT ![t] = "pending"]
    /\ UNCHANGED <<exe_exists, is_recording, recording_process, recording_file, recRunning,
                   recSpawned, recFrame>>

\* lines 957-972: the subprocess was created
StartRecordingSpawned(t) ==
    /\ recTask[t].pc = "spawning"
    /\ recSpawned' = recSpawned + 1
    /\ recRunning' = recRunning \cup {recSpawned + 1}
    /\ recording_process' = recSpawned + 1
    /\ is_recording' = TRUE
    /\ recording_file' = "file"
    /\ recTask' = [recTask EXCEPT ![t] = AtRest]
    /\ recResult' = [recResult EXCEPT ![t] = "started"]
    /\ UNCHANGED <<exe_exists, recCalls, recFrame>>

\* lines 974-981: create_subprocess_exec raised
StartRecordingFailed(t) ==
    /\ recTask[t].pc = "spawning"
    /\ is_recording' = FALSE
    /\ recording_process' = 0
    /\ recTask' = [recTask EXCEPT ![t] = AtRest]
    /\ recResult' = [recResult EXCEPT ![t] = "failed"]
    /\ UNCHANGED <<exe_exists, recording_file, recRunning, recSpawned, recCalls, recFrame>>

\* lines 1019-1026: the except branch of stop_recording
StopFailed(t) ==
    /\ is_recording' = FALSE
    /\ recording_process' = 0
    /\ recording_file' = "none"
    /\ recTask' = [recTask EXCEPT ![t] = AtRest]
    /\ recResult' = [recResult EXCEPT ![t] = "stop_failed"]
\* lines 1008-1017: the normal end of stop_recording
StopSucceeded(t) ==
    /\ is_recording' = FALSE
    /\ recording_process' = 0
    /\ recording_file' = "none"
    /\ recTask' = [recTask EXCEPT ![t] = AtRest]
    /\ recResult' = [recResult EXCEPT ![t] = "stopped"]

\* lines 983-1002: stop_recording up to the await of wait(); terminate() raises
\* ProcessLookupError for a process that has exited
StopRecordingCall(t) ==
    /\ recTask[t].pc = "idle"
    /\ recCalls < MaxRecCalls
    /\ recCalls' = recCalls + 1
    /\ IF ~is_recording \/ recording_process = 0
       THEN /\ recResult' = [recResult EXCEPT ![t] = "no_recording"]
            /\ UNCHANGED <<is_recording, recording_process, recording_file, recTask>>
       ELSE IF recording_process \notin recRunning
       THEN StopFailed(t)
       ELSE /\ recTask' = [recTask EXCEPT ![t] =
                               [pc |-> "waiting", waits_on |-> recording_process]]
            /\ recResult' = [recResult EXCEPT ![t] = "pending"]
            /\ UNCHANGED <<is_recording, recording_process, recording_file>>
    /\ UNCHANGED <<exe_exists, recRunning, recSpawned, recFrame>>

\* lines 1001-1017: the process exited within the 5 seconds
StopRecordingWaited(t) ==
    /\ recTask[t].pc \in {"waiting", "killing"}
    /\ recTask[t].waits_on \notin recRunning
    /\ StopSucceeded(t)
    /\ UNCHANGED <<exe_exists, recRunning, recSpawned, recCalls, recFrame>>

\* lines 1003-1006: the wait timed out; kill() is called on the process the
\* service refers to now, which raises AttributeError for None and
\* ProcessLookupError for a process that has exited
StopRecordingTimeout(t) ==
    /\ recTask[t].pc = "waiting"
    /\ recTask[t].waits_on \in recRunning
    /\ IF recording_process = 0 \/ recording_process \notin recRunning
       THEN StopFailed(t) /\ UNCHANGED recRunning
       ELSE /\ recRunning' = recRunning \ {recording_process}
            /\ recTask' = [recTask EXCEPT ![t] =
                               [pc |-> "killing", waits_on |-> recording_process]]
            /\ UNCHANGED <<is_recording, recording_process, recording_file, recResult>>
    /\ UNCHANGED <<exe_exists, recSpawned, recCalls, recFrame>>

\* a recording subprocess exits: terminated by stop_recording, or by itself
\* (scrcpy ends when its device goes away)
RecordingProcessExits(p) ==
    /\ p \in recRunning
    /\ recRunning' = recRunning \ {p}
    /\ UNCHANGED <<exe_exists, is_recording, recording_process, recording_file, recSpawned,
                   recCalls, recTask, recResult, recFrame>>

RecNext ==
    \/ \E t \in RecTasks : StartRecordingCall(t)
    \/ \E t \in RecTasks : StartRecordingSpawned(t)
    \/ \E t \in RecTasks : StartRecordingFailed(t)
    \/ \E t \in RecTasks : StopRecordingCall(t)
    \/ \E t \in RecTasks : StopRecordingWaited(t)
    \/ \E t \in RecTasks : StopRecordingTimeout(t)
    \/ \E p \in 1..MaxRecCalls : RecordingProcessExits(p)

\* ---------- AdbService.connect, disconnect, capture_screen (adb_service.py)
\* _run_adb returns the outcome of the command and raises only when the adb
\* tool is not found (lines 46-65); each outcome is an input of the action.
Addresses == {"10.0.0.1:5555", "10.0.0.2:5555"}

\* lines 16-18
AdbInit ==
    /\ adb_found \in BOOLEAN
    /\ connected_address = "none"
    /\ adbLog = [a \in Addresses |-> "never"]
    /\ adbCalls = 0
    /\ adbResult = "none"

\* lines 73-74: the disconnect that connect issues first
DisconnectPrevious(issued, previous) ==
    IF previous = "none" THEN issued ELSE [issued EXCEPT ![previous] = "disconnect issued"]

\* lines 84 and 91: _connected_address after connect, by the output of adb
AddressAfterConnect(previous, address, accepted) == IF accepted THEN address ELSE previous

\* lines 67-97; `accepted` says whether the output of `adb connect` contains
\* "connected"
AdbConnect(address, accepted) ==
    /\ adbCalls < MaxAdbCalls
    /\ adbCalls' = adbCalls + 1
    /\ IF ~adb_found
       THEN /\ adbResult' = "adb not found"
            /\ UNCHANGED <<connected_address, adbLog>>
       ELSE /\ connected_address' = AddressAfterConnect(connected_address, address, accepted)
            /\ adbLog' = LET issued == DisconnectPrevious(adbLog, connected_address)
                         IN  IF accepted THEN [issued EXCEPT ![address] = "connected"] ELSE issued
            /\ adbResult' = IF accepted THEN "connected" ELSE "connect failed"
    /\ UNCHANGED <<adb_found, adbFrame>>

\* lines 99-107
AdbDisconnect ==
    /\ adbCalls < MaxAdbCalls
    /\ adbCalls' = adbCalls + 1
    /\ IF connected_address = "none"
       THEN /\ adbResult' = "disconnected"
            /\ UNCHANGED <<connected_address, adbLog>>
       ELSE IF ~adb_found
       THEN /\ adbResult' = "disconnect failed"
            /\ UNCHANGED <<connected_address, adbLog>>
       ELSE /\ adbLog' = DisconnectPrevious(adbLog, connected_address)
            /\ connected_address' = "none"
            /\ adbResult' = "disconnected"
    /\ UNCHANGED <<adb_found, adbFrame>>

\* lines 108-151; `captured` says whether screencap gave data, `listed` whether
\* `adb devices` then lists the address and no device as offline
AdbCaptureScreen(captured, listed) ==
    /\ adbCalls < MaxAdbCalls
    /\ adbCalls' = adbCalls + 1
    /\ IF connected_address = "none"
       THEN /\ adbResult' = "not connected"
            /\ UNCHANGED connected_address
       ELSE IF adb_found /\ captured
       THEN /\ adbResult' = "image"
            /\ UNCHANGED connected_address
       ELSE /\ adbResult' = "capture failed"
            /\ connected_address' = IF adb_found /\ listed THEN connected_address ELSE "none"
    /\ UNCHANGED <<adb_found, adbLog, adbFrame>>

\* lines 181-186
get_status == [is_connected |-> connected_address # "none", address |-> connected_address]

AdbNext ==
    \/ \E address \in Addresses, accepted \in BOOLEAN : AdbConnect(address, accepted)
    \/ AdbDisconnect
    \/ \E captured \in BOOLEAN, listed \in BOOLEAN : AdbCaptureScreen(captured, listed)

\* ----------------------------------------------------------- specifications
InitMerge == comp = "merge" /\ MergeInit /\ ImagesIdle /\ AlignIdle /\ DetectIdle /\ DrawIdle
                   /\ PipeIdle /\ StreamIdle /\ ScanIdle /\ LaterIdle
SpecMerge == InitMerge /\ [][MergeNext]_vars

InitAlign ==
    /\ comp = "align"
    /\ AlignInit /\ MergeIdle /\ DetectIdle /\ DrawIdle /\ PipeIdle /\ StreamIdle /\ ScanIdle /\ LaterIdle
SpecAlign == InitAlign /\ [][AlignNext]_vars

InitDetect ==
    /\ comp = "detect"
    /\ DetectInit /\ MergeIdle /\ AlignIdle /\ DrawIdle /\ PipeIdle /\ StreamIdle /\ ScanIdle /\ LaterIdle
SpecDetect == InitDetect /\ [][DetectNext]_vars

InitDraw ==
    /\ comp = "draw"
    /\ DrawInit /\ MergeIdle /\ ImagesIdle /\ AlignIdle /\ DetectIdle /\ PipeIdle
    /\ StreamIdle /\ ScanIdle /\ LaterIdle
SpecDraw == InitDraw /\ [][DrawNext]_vars

InitPipeline ==
    /\ comp = "pipeline"
    /\ PipeInit /\ MergeIdle /\ ImagesIdle /\ AlignIdle /\ DetectIdle /\ StreamIdle /\ ScanIdle /\ LaterIdle
SpecPipeline == InitPipeline /\ [][PipeNext]_vars

InitStream ==
    /\ comp = "stream"
    /\ StreamInit /\ MergeIdle /\ ImagesIdle /\ AlignIdle /\ DetectIdle /\ DrawIdle /\ PipeIdle
    /\ ScanIdle /\ LaterIdle
SpecStream == InitStream /\ [][StreamNext]_vars

InitScan ==
    /\ comp = "scan"
    /\ ScanInit /\ MergeIdle /\ ImagesIdle /\ AlignIdle /\ DetectIdle /\ DrawIdle /\ PipeIdle
    /\ StreamIdle /\ LaterIdle
SpecScan == InitScan /\ [][ScanNext]_vars
InitSplit == comp = "split" /\ SplitInit /\ SplitOthersIdle
SpecSplit == InitSplit /\ [][SplitNext]_vars
InitCrop == comp = "crop" /\ CropInit /\ CropOthersIdle
SpecCrop == InitCrop /\ [][CropNext]_vars
InitBorder == comp = "border" /\ BorderInit /\ BorderOthersIdle
SpecBorder == InitBorder /\ [][BorderNext]_vars
InitRec == comp = "rec" /\ RecInit /\ RecOthersIdle
SpecRec == InitRec /\ [][RecNext]_vars
InitAdb == comp = "adb" /\ AdbInit /\ AdbOthersIdle
SpecAdb == InitAdb /\ [][AdbNext]_vars

\* ------------------------------------------------ claims on the region merger
Right(r) == r[1] + r[3]
Bottom(r) == r[2] + r[4]
BoundingUnion(a, b) ==
    <<Min(a[1], b[1]), Min(a[2], b[2]),
      Max(Right(a), Right(b)) - Min(a[1], b[1]),
      Max(Bottom(a), Bottom(b)) - Min(a[2], b[2])>>
ContainsRect(outer, inner) ==
    /\ outer[1] <= inner[1]
    /\ outer[2] <= inner[2]
    /\ Right(inner) <= Right(outer)
    /\ Bottom(inner) <= Bottom(outer)
PaddedOverlap(a, b, p) == Overlaps(ExpandRegion(a, p), ExpandRegion(b, p))
\* the gap between two rectangles along x, and along y (negative when they overlap
\* on that axis)
GapX(a, b) == Max(b[1] - Right(a), a[1] - Right(b))
GapY(a, b) == Max(b[2] - Bottom(a), a[2] - Bottom(b))
FarApart(a, b, p) == GapX(a, b) > 2 * p \/ GapY(a, b) > 2 * p
MergeDone == comp = "merge" /\ mpc = "done"

\* C1: two rectangles (in either order) whose padded forms intersect are returned
\* as exactly one rectangle, their bounding union.
C1_PaddedPairGivesBoundingUnion ==
    (MergeDone /\ Len(regions) = 2 /\ PaddedOverlap(regions[1], regions[2], padding))
        => mresult = <<BoundingUnion(regions[1], regions[2])>>

\* C2: two rectangles separated horizontally or vertically by a gap greater than
\* 2 x padding are returned as they were given, in the input order.
C2_FarApartPairUnchanged ==
    (MergeDone /\ Len(regions) = 2 /\ FarApart(regions[1], regions[2], padding))
        => mresult = regions
C2_Witness ==
    /\ MergeDone
    /\ Len(regions) = 2
    /\ padding > 0
    /\ GapX(regions[1], regions[2]) > 2 * padding
    /\ GapY(regions[1], regions[2]) < 0
    /\ passes = 1
    /\ mresult = regions

\* C3: the returned list covers the input: every input rectangle lies inside at
\* least one returned rectangle.
C3_OutputCoversInput ==
    MergeDone =>
        \A i \in 1..Len(regions) :
            \E j \in 1..Len(mresult) : ContainsRect(mresult[j], regions[i])

\* ---------------------------------------------------- claims on align_images
\* C4: both outputs have height min(h1, h2) and width min(w1, w2), and each is the
\* window of its own input that starts at row floor((h - min_h) / 2) and column
\* floor((w - min_w) / 2), pixel for pixel.
IsWindowOf(out, img, min_h, min_w) ==
    /\ Height(out) = min_h
    /\ \A r \in 1..Height(out) : Len(out[r]) = min_w
    /\ \A r \in 1..min_h : \A c \in 1..min_w :
          out[r][c] = img[r + (Height(img) - min_h) \div 2][c + (Width(img) - min_w) \div 2]
C4_AlignIsCenterWindow ==
    (comp = "align" /\ apc = "done") =>
        LET min_h == Min(Height(img1), Height(img2))
            min_w == Min(Width(img1), Width(img2))
        IN  /\ IsWindowOf(aligned[1], img1, min_h, min_w)
            /\ IsWindowOf(aligned[2], img2, min_h, min_w)
C4_Witness ==
    /\ comp = "align"
    /\ apc = "done"
    /\ Height(img1) - Height(img2) = 2
    /\ Width(img2) - Width(img1) = 1
    /\ aligned[1][1][1] = <<2, 1, 1>>
    /\ aligned[2][1][1] = <<1, 1, 2>>

\* ------------------------------------------------- claims on find_differences
\* C5: for identical images find_differences returns the empty list, for every
\* diff_threshold in 0..255 and every min_area.
C5_IdenticalImagesGiveNoRegion ==
    (comp = "detect" /\ dpc = "done" /\ img1 = img2 /\ diff_threshold \in 0..255)
        => dresult = <<>>
C5_Witness ==
    /\ comp = "detect"
    /\ dpc = "done"
    /\ img1 = img2
    /\ diff_threshold = 0
    /\ \E r \in 1..Height(img1) : \E c \in 1..Width(img1) : img1[r][c] # Black
    /\ dresult = <<>>

\* C6: a contour of area min_area - 1 is not put on the list of differences, and a
\* contour of area exactly min_area that passes the size test is.
RectsOf(seq) == {seq[k] : k \in 1..Len(seq)}
C6_AreaFilterInclusive ==
    (comp = "detect" /\ dpc \in {"filtered", "done"}) =>
        \A k \in 1..Len(contours) :
            /\ contours[k].area = min_area - 1 => contours[k].rect \notin RectsOf(differences)
            /\ (/\ contours[k].area = min_area
                /\ SizeOk(contours[k].rect, Min(Width(img1), Width(img2)),
                          Min(Height(img1), Height(img2))))
                    => contours[k].rect \in RectsOf(differences)
C6_Witness ==
    /\ comp = "detect"
    /\ dpc = "done"
    /\ min_area = 80
    /\ Len(contours) = 2
    /\ contours[1].area = min_area - 1
    /\ contours[2].area = min_area
    /\ differences = <<contours[2].rect>>
    /\ dresult = differences

\* ------------------------------------------------- claims on draw_differences
\* C7: with the default threshold a region with w = h is drawn as a circle and a
\* region with min(w, h) / max(w, h) below the threshold (such as 10 x 100) as a
\* rectangle, whatever the other regions of the list and wherever the region lies.
C7_ShapeFromOwnAspectRatio ==
    comp = "draw" =>
        \A k \in 1..Len(drawCalls) :
            LET w == drawRegions[k][3]
                h == drawRegions[k][4]
            IN  /\ w = h => drawCalls[k].shape = "circle"
                /\ (aspect_ratio_threshold_den * Min(w, h)
                        < aspect_ratio_threshold_num * Max(w, h))
                       => drawCalls[k].shape = "rectangle"
C7_Witness ==
    /\ comp = "draw"
    /\ drawpc = "done"
    /\ Len(drawRegions) = 2
    /\ drawRegions[1] = <<DrawStep, DrawStep, 10, 100>>
    /\ drawRegions[2] = <<0, 0, 4, 4>>
    /\ drawCalls[1].shape = "rectangle"
    /\ drawCalls[2].shape = "circle"

\* C18: every circle draw_differences draws keeps the 5 px safety gap to the
\* image border: its radius is at most
\* min(center_x, center_y, width - center_x, height - center_y) - 5.
LimitOf(k) ==
    RadiusLimit(drawShape[1], drawShape[2], CenterX(drawRegions[k]), CenterY(drawRegions[k]))
C19_DrawLeavesInputsUnchanged ==
    [][comp = "draw" =>
          /\ drawImgMarks' = drawImgMarks
          /\ drawRegions' = drawRegions
          /\ drawShape' = drawShape
          /\ drawCalls' # drawCalls => drawResultIs = "copy"]_vars
C19_Witness ==
    /\ comp = "draw"
    /\ drawpc = "done"
    /\ Len(drawRegions) = 2
    /\ Len(drawCalls) = 2
    /\ drawResultIs = "copy"
    /\ drawImgMarks = <<>>

\* ---------------------------------------------------- claims on the pipeline
Invoked(c) == inv[c].op \in Operations
Finished(c) == inv[c].pc \in {"done", "failed"}

\* C8: for undecodable input bytes every public operation fails with the
\* invalid-image error before anything else has happened: no detection or
\* rendering has run, no output directory has been created, no file has been
\* written, and the only result ever returned is the invalid-image error.
C8_UndecodableFailsBeforeAnyEffect ==
    \A c \in Callers :
        Invoked(c) /\ ~Decodes(inv[c].image_bytes) =>
            /\ inv[c].created = {}
            /\ inv[c].written = {}
            /\ inv[c].diffs = <<>>
            /\ inv[c].rendered = <<>>
            /\ inv[c].result \in {NoResult, InvalidImage}
            /\ Finished(c) => inv[c].result = InvalidImage

\* C9: any two runs of process_screenshot recorded so far that had the same
\* image bytes, min_area and diff_threshold returned the same region list (same
\* rectangles, same order), the same image_size, and, where both returned
\* images, the same rendered outputs.
SameInputs(e1, e2) == e1[1][1] = e2[1][1] /\ e1[1][2] = e2[1][2] /\ e1[1][3] = e2[1][3]
C10_SaveReportsItsOwnFiles ==
    \A c \in Callers :
        inv[c].op = "save_result_images" /\ inv[c].pc = "done" =>
            \A kind \in FileKinds : inv[c].seen[kind] = inv[c].rendered[kind]

\* C11: every successful result of process_screenshot and save_result_images
\* has difference_count equal to the number of entries of differences, and its
\* k-th entry (from 1) has index k and the k-th rectangle find_differences
\* returned, in that order; with no region the result is successful with count 0
\* and an empty list.
C11_CountAndIndexedEntries ==
    \A c \in Callers :
        inv[c].result.kind = "ok" =>
            LET found == DetectedRegions(inv[c].image_bytes, inv[c].min_area,
                                         inv[c].diff_threshold)
                r == inv[c].result
            IN  /\ r.difference_count = Len(r.differences)
                /\ Len(r.differences) = Len(found)
                /\ \A k \in 1..Len(found) :
                      r.differences[k] =
                          [index |-> k, x |-> found[k][1], y |-> found[k][2],
                           width |-> found[k][3], height |-> found[k][4]]
C11_Witness ==
    \E c, d \in Callers :
        /\ inv[c].op = "process_screenshot" /\ inv[c].result.kind = "ok"
        /\ inv[c].result.difference_count = 2
        /\ inv[c].result.differences[1].x > inv[c].result.differences[2].x
        /\ inv[d].op = "save_result_images" /\ inv[d].result.kind = "ok"
        /\ inv[d].result.difference_count = 0 /\ inv[d].result.differences = <<>>

\* C12: every rectangle <<x, y, w, h>> find_differences returns has w > 0 and
\* h > 0 and lies inside the aligned image: x >= 0, y >= 0, x + w <= aligned
\* width, y + h <= aligned height.
InsideImage(rect, imgW, imgH) ==
    /\ rect[3] > 0 /\ rect[4] > 0
    /\ rect[1] >= 0 /\ rect[2] >= 0
    /\ Right(rect) <= imgW /\ Bottom(rect) <= imgH
C12_ReturnedRectsInsideAlignedImage ==
    dpc = "done" =>
        LET al == align_images(img1, img2)
        IN  \A k \in 1..Len(dresult) :
                InsideImage(dresult[k], Width(al[1]), Height(al[1]))
C12_Witness ==
    /\ dpc = "done"
    /\ Len(differences) = 2
    /\ Len(dresult) = 1
    /\ dresult[1] \notin RectsOf(differences)

\* C13: the result of save_result_images holds the metadata of metadata mode,
\* difference_count, differences and image_size, and the four file paths.
C13_SaveResultHasFullMetadata ==
    \A c \in Callers :
        inv[c].op = "save_result_images" /\ inv[c].result.kind = "ok" =>
            LET r == inv[c].result
                i == inv[c]
            IN  /\ {"difference_count", "differences", "saved_files"} \subseteq DOMAIN r
                /\ DOMAIN r.saved_files =
                       {"combined", "heatmap", "image1_marked", "image2_marked"}
                /\ "image_size" \in DOMAIN r
                /\ r.image_size = [width |-> AlignedShape(i.image_bytes)[2],
                                   height |-> AlignedShape(i.image_bytes)[1]]

\* C14: for the same image bytes, min_area and diff_threshold, process_screenshot
\* returns the same difference_count, differences and image_size with
\* return_images false as with return_images true; with return_images false it
\* returns no image buffer, with return_images true exactly the four.
Metadata(r) == <<r.difference_count, r.differences, r.image_size>>
C14_MetadataSameInBothModes ==
    /\ \A e1, e2 \in log :
          SameInputs(e1, e2) /\ e1[1][4] # e2[1][4] => Metadata(e1[2]) = Metadata(e2[2])
    /\ \A e \in log :
          IF e[1][4]
          THEN DOMAIN e[2].images = {"marked_image_base64", "heatmap_base64",
                                     "image1_base64", "image2_base64"}
          ELSE e[2].images = <<>>
C14_Witness ==
    \E e1, e2 \in log :
        /\ SameInputs(e1, e2)
        /\ e1[1][4] /\ ~e2[1][4]
        /\ e1[2].difference_count > 0
        /\ e2[2].images = <<>>

\* ------------------------------------------------ claims on the screen stream
\* C15: whatever set_interval messages the client sends, the capture interval
\* is never below 100 ms (and never above 2000 ms), and so is the interval of
\* every sleep between frames.
C15_IntervalAtLeast100 ==
    comp = "stream" =>
        /\ 100 <= interval_ms /\ interval_ms <= 2000
        /\ slept_ms # 0 => 100 <= slept_ms /\ slept_ms <= 2000

\* C16: merge_overlapping_regions stops at a fixed point: no two rectangles at
\* different positions of the returned list have padded forms (each expanded by
\* `padding` on all sides) that intersect under the axis-aligned overlap test.
C16_OutputIsFixedPoint ==
    MergeDone =>
        \A i, j \in 1..Len(mresult) :
            i # j => ~Overlaps(ExpandRegion(mresult[i], padding),
                               ExpandRegion(mresult[j], padding))
C16_Witness ==
    /\ MergeDone
    /\ Len(regions) = 3
    /\ Len(mresult) = 2
    /\ passes = 2

\* C17: a contour with area >= min_area is kept by find_differences if and only
\* if neither side of its bounding rectangle exceeds 80% of the corresponding
\* side of the aligned image; a contour exactly 80% wide (or high) is kept.
\* (Stated on the inputs with one contour, which the merge step returns as it
\* is when it was kept.)
WithinEightyPercent(rect, imgW, imgH) == 5 * rect[3] <= 4 * imgW /\ 5 * rect[4] <= 4 * imgH
C17_KeptIffWithinEightyPercent ==
    \A c \in Callers :
        inv[c].result.kind = "ok" =>
            LET i == inv[c]
                cs == cvFound[<<i.image_bytes, i.diff_threshold>>]
                shape == AlignedShape(i.image_bytes)
            IN  Len(cs) = 1 /\ cs[1].area >= i.min_area =>
                    IF WithinEightyPercent(cs[1].rect, shape[2], shape[1])
                    THEN i.result.difference_count = 1
                         /\ i.result.differences[1].width = cs[1].rect[3]
                    ELSE i.result.difference_count = 0

\* ------------------------------------------------ claims on the row scan
\* the maximal runs of content rows of a screenshot, as half-open intervals
MaximalRuns(rows) ==
    {<<a, b>> \in (0..Len(rows)) \X (0..Len(rows)) :
        /\ a < b
        /\ \A k \in (a + 1)..b : rows[k]
        /\ a = 0 \/ ~rows[a]
        /\ b = Len(rows) \/ ~rows[b + 1]}

\* C20: the row scan records a maximal run of content rows if and only if its
\* length is not shorter than 15% of the image height; a run of exactly 15% is
\* recorded, also when it ends at the last row.
C20_RunsOfFifteenPercentRecorded ==
    comp = "scan" /\ scanpc = "done" =>
        RectsOf(content_regions) =
            {run \in MaximalRuns(scanRows) :
                20 * (run[2] - run[1]) >= 3 * Len(scanRows)}

\* C28: after the row scan the recorded content regions [start, end) are listed
\* in strictly increasing order, are pairwise disjoint with at least one
\* background row between consecutive regions, satisfy
\* 0 <= start < end <= height, and each covers only content rows, all of them
\* maximal runs.
C28_RegionsOrderedDisjointMaximal ==
    (comp = "scan" /\ scanpc = "done") =>
        LET height == Len(scanRows)
            n == Len(content_regions)
        IN  /\ \A i \in 1..n :
                   LET start == content_regions[i][1]
                       end == content_regions[i][2]
                   IN  /\ 0 <= start /\ start < end /\ end <= height
                       /\ \A y \in start..(end - 1) : scanRows[y + 1]
                       /\ start = 0 \/ ~scanRows[start]
                       /\ end = height \/ ~scanRows[end + 1]
            /\ \A i \in 1..(n - 1) :
                   /\ content_regions[i][2] < content_regions[i + 1][1]
                   /\ \E y \in content_regions[i][2]..(content_regions[i + 1][1] - 1) :
                          ~scanRows[y + 1]
C28_Witness ==
    /\ comp = "scan" /\ scanpc = "done"
    /\ Len(content_regions) = 2
    /\ content_regions[1][1] = 0
    /\ content_regions[2][2] = Len(scanRows)
    /\ \E y \in 1..Len(scanRows) : ~scanRows[y]

\* ------------------------------------------------ claims about the splitter
SplitRegionSet == {splitRegions[i] : i \in 1..Len(splitRegions)}
ConsecutivePairs ==
    {q \in SplitRegionSet \X SplitRegionSet :
        /\ q[1][1] < q[2][1]
        /\ ~ \E c \in SplitRegionSet : q[1][1] < c[1] /\ c[1] < q[2][1]}
PairDiff(q) == Abs(RegionHeight(q[1]) - RegionHeight(q[2]))
Chosen == comp = "split" /\ splitpc \in {"chosen", "done", "error"}

\* C21: with two or more content regions the pair selected is two regions
\* consecutive in top-to-bottom order, the upper one first, and no other
\* consecutive pair has a strictly smaller absolute height difference; with
\* exactly two regions the pair is those two.
C21_ClosestConsecutivePair ==
    (Chosen /\ Len(splitRegions) >= 2) =>
        /\ <<region1, region2>> \in ConsecutivePairs
        /\ \A q \in ConsecutivePairs : PairDiff(q) >= PairDiff(<<region1, region2>>)
        /\ Len(splitRegions) = 2 => <<region1, region2>> = <<splitRegions[1], splitRegions[2]>>
C21_Witness ==
    /\ Chosen
    /\ Len(splitRegions) = 4
    /\ <<region1, region2>> = <<splitRegions[2], splitRegions[3]>>
    /\ PairDiff(<<splitRegions[1], splitRegions[2]>>) > PairDiff(<<region1, region2>>)
    /\ PairDiff(<<splitRegions[3], splitRegions[4]>>) = PairDiff(<<region1, region2>>)

\* C22: in the single-region case the separator band always satisfies the
\* minimum gap, split_end - split_start >= max(2, floor(0.005 * region_height)),
\* and the first image ends at split_start while the second begins after
\* split_end.
C22_BandHasMinimumGap ==
    (Chosen /\ Len(splitRegions) = 1) =>
        LET region_height == splitRegions[1][2] - splitRegions[1][1]
            split_start == split_band[2]
            split_end == split_band[3]
        IN  /\ split_end - split_start >= Max(2, (5 * region_height) \div 1000)
            /\ region1[2] = split_start
            /\ region2[1] > split_end

\* C23: with zero content regions the splitter uses the row intervals
\* [floor(0.17 H), floor(0.48 H)) and [floor(0.52 H), floor(0.83 H)) of the
\* screenshot height H, and the pipeline continues to a successful result
\* instead of raising an error.
C23_FallbackFractionsSucceed ==
    (Chosen /\ Len(splitRegions) = 0) =>
        /\ region1 = <<(17 * splitHeight) \div 100, (48 * splitHeight) \div 100>>
        /\ region2 = <<(52 * splitHeight) \div 100, (83 * splitHeight) \div 100>>
        /\ splitpc # "error"

\* ---------------------------------------- claims about the unified cropping
HalfOfLargerUnlessClose(v1, v2) ==
    IF Max(v1, v2) > 0 /\ 2 * Min(v1, v2) > Max(v1, v2)
    THEN Min(v1, v2)
    ELSE Max(v1, v2) \div 2

\* C24: the two detected border widths v1, v2 >= 0 of each side are
\* reconciled by one rule for all pairs: min(v1, v2) if min/max > 0.5,
\* otherwise floor(max(v1, v2) / 2), also when exactly one width is 0.
C24_OneRuleForAllPairs ==
    (comp = "crop" /\ croppc \in {"unified", "first", "done"}) =>
        /\ cropUnified.left = HalfOfLargerUnlessClose(cropDetected.left1, cropDetected.left2)
        /\ cropUnified.right = HalfOfLargerUnlessClose(cropDetected.right1, cropDetected.right2)
        /\ cropUnified.top = HalfOfLargerUnlessClose(cropDetected.top1, cropDetected.top2)
        /\ cropUnified.bottom
               = HalfOfLargerUnlessClose(cropDetected.bottom1, cropDetected.bottom2)

\* C25: the same window is cut from both images: the top and left offsets
\* applied to the first image equal those applied to the second, and the
\* amounts removed at the bottom and right are equal too, so inputs of equal
\* size give outputs of equal size and inputs of different height are never
\* cropped by different margins.
C25_SameWindowFromBoth ==
    (comp = "crop" /\ croppc = "done") =>
        LET s1 == cropSlices[1]
            s2 == cropSlices[2]
        IN  /\ s1[1] = s2[1]
            /\ s1[3] = s2[3]
            /\ cropShapes[1][1] - s1[2] = cropShapes[2][1] - s2[2]
            /\ cropShapes[1][2] - s1[4] = cropShapes[2][2] - s2[4]
            /\ cropShapes[1] = cropShapes[2] =>
                   (s1[2] - s1[1] = s2[2] - s2[1] /\ s1[4] - s1[3] = s2[4] - s2[3])

\* C26: the width w returned by detect_uniform_border_width is contiguous:
\* every offset 1..w passed the test, and offset w + 1 failed it or reached
\* the search limit min(max_search, dimension // 4); an offset that passes
\* after the first failing offset never increases the result, and the result
\* is 0 when no offset is accepted or the search limit is at most 1.
SearchLimit ==
    LET dimension == IF borderSide \in {"left", "right"}
                     THEN borderShape[2] ELSE borderShape[1]
    IN  IF max_search < dimension \div 4 THEN max_search ELSE dimension \div 4
C26_BorderWidthContiguous ==
    (comp = "border" /\ borderpc = "returned") =>
        /\ border_width >= 0
        /\ \A o \in 1..border_width : borderTest[o]
        /\ border_width + 1 >= SearchLimit \/ ~borderTest[border_width + 1]
        /\ \A o \in 1..(SearchLimit - 1) : ~borderTest[o] => border_width < o
        /\ (SearchLimit <= 1 \/ \A o \in 1..(SearchLimit - 1) : ~borderTest[o])
               => border_width = 0
C26_Witness ==
    /\ comp = "border" /\ borderpc = "returned"
    /\ border_width = 2
    /\ SearchLimit = 5
    /\ ~borderTest[3]
    /\ borderTest[4]

\* ------------------------------------------ claims about the merge, continued
\* C27: merge_overlapping_regions terminates: each pass of the while loop that
\* sets `changed` strictly reduces the number of rectangles, so the loop runs
\* at most n passes for n input rectangles and the output never has more
\* rectangles than the input.
ChangingPasses == IF changed THEN passes ELSE Max(0, passes - 1)
C27_PassesBoundedByInput ==
    (comp = "merge" /\ mpc \in {"loop", "done"}) =>
        /\ passes <= Len(regions)
        /\ regions # <<>> => Len(merged) + ChangingPasses <= Len(regions)
        /\ mpc = "done" => Len(mresult) <= Len(regions)
C27_Witness ==
    /\ comp = "merge" /\ mpc = "done"
    /\ Len(regions) = 3
    /\ passes = 2
    /\ Len(mresult) = 2

\* ------------------------------------------------ claims about the recording
\* C29: under any interleaving of concurrent start_recording and
\* stop_recording calls at most one recording subprocess started by the
\* service is running at any time, and every running recording subprocess is
\* the one the service refers to (so that a later stop_recording terminates
\* it); a start_recording issued while a recording is in progress returns
\* failure without spawning a process.
C29_OneReferencedRecording ==
    comp = "rec" =>
        /\ Cardinality(recRunning) <= 1
        /\ \A p \in recRunning : recording_process = p

\* ------------------------------------------------ claims about the adb service
\* C30: in every state reachable by connect, disconnect and capture_screen
\* calls, if get_status reports connected with address A, then A was the
\* target of a successful adb connect and the service has not issued an adb
\* disconnect for A since; in particular, after connect(B) fails while A was
\* connected, the service does not still report being connected to A.
C30_ReportedAddressIsConnected ==
    (comp = "adb" /\ get_status.is_connected) => adbLog[get_status.address] = "connected"

====
